---- MODULE Spec2Model ----
\* Register map, bit-field layouts and accessor macros of the Bosch X_CAN core
\* (src/XCAN_core.h), modelled as data plus the evaluations a compiler and a
\* caller perform on them: laying out a bit-field structure, expanding a
\* _SET/_GET macro on a value, looking up a DLC, classifying header word 0 and
\* laying out a message descriptor.
\*
\* A 32-bit word is the set of the indices of its 1 bits (bit 0 is the least
\* significant), so uint32_t arithmetic never leaves the range of TLC integers.
EXTENDS Integers, Sequences, FiniteSets, TLC

\* ---------------------------------------------------------------------------
\* Bounds of the exploration
\* ---------------------------------------------------------------------------
\* Macro arguments are runs of 1 bits inside bits 0..MaxValueBit; bit 32 makes
\* the argument wider than uint32_t so that the (uint32_t) cast has an effect.
MaxValueBit == 32
\* DLC codes handed to XCAN_DLCToByte are 0..MaxDlcInput.
MaxDlcInput == 255
\* Descriptors defined in a slot, one after the other, are at most MaxDescriptors.
MaxDescriptors == 34
\* Arguments of XCAN_DCB8_TO_DECIMAL are 0..MaxDcbInput.
MaxDcbInput == 255

\* ---------------------------------------------------------------------------
\* C integer operations on words
\* ---------------------------------------------------------------------------
Uint32Bits == 0 .. 31

\* (uint32_t)(value): conversion to a 32-bit unsigned keeps the low 32 bits.
U32(value) == value \cap Uint32Bits

\* a << n on a 32-bit unsigned: bits shifted past bit 31 are lost.
Shl(a, n) == {b + n : b \in a} \cap Uint32Bits

\* a >> n on a 32-bit unsigned.
Shr(a, n) == {b - n : b \in {x \in a : x >= n}}

\* a & b and a | b.
And(a, b) == a \cap b
Or(a, b) == a \cup b

\* A hexadecimal literal, given by its digits, most significant first.
Hex(digits) ==
  {p \in 0 .. 4 * Len(digits) - 1 :
     (digits[Len(digits) - (p \div 4)] \div (2 ^ (p % 4))) % 2 = 1}

\* The word of a small non-negative integer, and the integer of a small word.
Bits(n) == {b \in 0 .. 30 : (n \div (2 ^ b)) % 2 = 1}

RECURSIVE ToInt(_)
ToInt(w) == IF w = {} THEN 0
            ELSE LET b == CHOOSE x \in w : \A y \in w : x >= y
                 IN 2 ^ b + ToInt(w \ {b})

Range(s) == {s[i] : i \in 1 .. Len(s)}

Max(S) == CHOOSE x \in S : \A y \in S : x >= y

\* The conversion had it subtracted 6 once instead of 6 per ten.
XCAN_DCB8_TO_DECIMAL_SixOnce(dcb) ==
  LET d == ToInt(dcb \cap (0 .. 7))
  IN Bits(IF d >= 16 THEN d - 6 ELSE d)

\* 8-bit BCD to decimal, line 67:
\* ( (uint8_t)(dcb) - (6u * ((uint8_t)(dcb) >> 4u)) )
XCAN_DCB8_TO_DECIMAL(dcb) ==
  LET d == ToInt(dcb \cap (0 .. 7))
  IN Bits(d - 6 * (d \div 16))

\* ---------------------------------------------------------------------------
\* Registers and descriptor words: one definition per typedef.  views holds one
\* record per bit-field overlay, its fields in declaration order (name "" is
\* an unnamed, reserved bit-field).  macros transcribes the _Pos, _Mask, _SET
\* and _GET macros that follow the typedef, one record per field: Mask.pos,
\* SET.pos/mask and GET.pos/mask name the field whose _Pos or _Mask the macro
\* body spells; bitfield is the bit-field of the typedef the macros are named
\* after ("" when the typedef declares no bit-field of that name).  flags
\* transcribes the constants (1u << n) that follow the typedef and carry the
\* name of one of its one-bit bit-fields, lit being the literal and shift the
\* shift count: bitfield is that bit-field
\* (XCAN_PC_TEST_RX_RECESSIVE is the level of the pin that RXD reports).  zeros
\* transcribes in the same way the constants (0u << n).
\* ---------------------------------------------------------------------------
XCAN_TxDMAinfoCtrl1 ==
  [ name |-> "XCAN_TxDMAinfoCtrl1",
    views |-> <<
      [ view |-> "", fields |-> <<
        <<"STS", 4>>, <<"RC", 5>>, <<"", 2>>, <<"PQSN", 5>>, <<"CRC", 9>>, <<"END", 1>>, <<"PQ", 1>>,
        <<"IRQ", 1>>, <<"NEXT", 1>>, <<"WRAP", 1>>, <<"HD", 1>>, <<"VALID", 1>> >> ]
    >>,
    macros |-> <<
      [ name |-> "XCAN_TxDMA1_STS", Pos |-> 0,
        Mask |-> [lit |-> Hex(<<15>>), pos |-> "XCAN_TxDMA1_STS"],
        SET |-> [op |-> "shl_and", pos |-> "XCAN_TxDMA1_STS", mask |-> "XCAN_TxDMA1_STS"],
        GET |-> [op |-> "and_shr", pos |-> "XCAN_TxDMA1_STS", mask |-> "XCAN_TxDMA1_STS"],
        reg |-> "XCAN_TxDMAinfoCtrl1", bitfield |-> "STS" ],
      [ name |-> "XCAN_TxDMA1_RC", Pos |-> 4,
        Mask |-> [lit |-> Hex(<<1, 15>>), pos |-> "XCAN_TxDMA1_RC"],
        SET |-> [op |-> "shl_and", pos |-> "XCAN_TxDMA1_RC", mask |-> "XCAN_TxDMA1_RC"],
        GET |-> [op |-> "and_shr", pos |-> "XCAN_TxDMA1_RC", mask |-> "XCAN_TxDMA1_RC"],
        reg |-> "XCAN_TxDMAinfoCtrl1", bitfield |-> "RC" ],
      [ name |-> "XCAN_TxDMA1_FQN", Pos |-> 12,
        Mask |-> [lit |-> Hex(<<15>>), pos |-> "XCAN_TxDMA1_FQN"],
        SET |-> [op |-> "shl_and", pos |-> "XCAN_TxDMA1_FQN", mask |-> "XCAN_TxDMA1_FQN"],
        GET |-> [op |-> "and_shr", pos |-> "XCAN_TxDMA1_FQN", mask |-> "XCAN_TxDMA1_FQN"],
        reg |-> "XCAN_TxDMAinfoCtrl1", bitfield |-> "" ],
      [ name |-> "XCAN_TxDMA1_PQSN", Pos |-> 11,
        Mask |-> [lit |-> Hex(<<1, 15>>), pos |-> "XCAN_TxDMA1_PQSN"],
        SET |-> [op |-> "shl_and", pos |-> "XCAN_TxDMA1_PQSN", mask |-> "XCAN_TxDMA1_PQSN"],
        GET |-> [op |-> "and_shr", pos |-> "XCAN_TxDMA1_PQSN", mask |-> "XCAN_TxDMA1_PQSN"],
        reg |-> "XCAN_TxDMAinfoCtrl1", bitfield |-> "PQSN" ],
      [ name |-> "XCAN_TxDMA1_CRC", Pos |-> 16,
        Mask |-> [lit |-> Hex(<<1, 15, 15>>), pos |-> "XCAN_TxDMA1_CRC"],
        SET |-> [op |-> "shl_and", pos |-> "XCAN_TxDMA1_CRC", mask |-> "XCAN_TxDMA1_CRC"],
        GET |-> [op |-> "and_shr", pos |-> "XCAN_TxDMA1_CRC", mask |-> "XCAN_TxDMA1_CRC"],
        reg |-> "XCAN_TxDMAinfoCtrl1", bitfield |-> "CRC" ]
    >>,
    flags |-> <<
      [ name |-> "XCAN_TxDMA1_END_TX_PRIORITY_QUEUE", lit |-> 1, shift |-> 25, bitfield |-> "END" ],
      [ name |-> "XCAN_TxDMA1_PQ_TX_PRIORITY_QUEUE", lit |-> 1, shift |-> 26, bitfield |-> "PQ" ],
      [ name |-> "XCAN_TxDMA1_IRQ_WHEN_SENT", lit |-> 1, shift |-> 27, bitfield |-> "IRQ" ],
      [ name |-> "XCAN_TxDMA1_WRAP_TO_FIRST_ELEMENT", lit |-> 1, shift |-> 29, bitfield |-> "WRAP" ],
      [ name |-> "XCAN_TxDMA1_HD", lit |-> 1, shift |-> 30, bitfield |-> "HD" ],
      [ name |-> "XCAN_TxDMA1_VALID_SET_VALID_FOR_MH", lit |-> 1, shift |-> 31, bitfield |-> "VALID" ]
    >>,
    zeros |-> <<
      [ name |-> "XCAN_TxDMA1_END_TX_FIFO_QUEUE", lit |-> 0, shift |-> 25, bitfield |-> "END" ],
      [ name |-> "XCAN_TxDMA1_PQ_TX_FIFO_QUEUE", lit |-> 0, shift |-> 26, bitfield |-> "PQ" ],
      [ name |-> "XCAN_TxDMA1_IRQ_NO_IRQ", lit |-> 0, shift |-> 27, bitfield |-> "IRQ" ],
      [ name |-> "XCAN_TxDMA1_NO_WRAP", lit |-> 0, shift |-> 29, bitfield |-> "WRAP" ]
    >> ]

XCAN_TxDMAinfoCtrl2 ==
  [ name |-> "XCAN_TxDMAinfoCtrl2",
    views |-> <<
      [ view |-> "", fields |-> <<
        <<"", 2>>, <<"TDO", 10>>, <<"", 1>>, <<"IN", 3>>, <<"SIZE", 10>>, <<"PLSRC", 1>>, <<"", 5>> >> ]
    >>,
    macros |-> <<
      [ name |-> "XCAN_TxDMA2_TDO", Pos |-> 2,
        Mask |-> [lit |-> Hex(<<3, 15, 15>>), pos |-> "XCAN_TxDMA2_TDO"],
        SET |-> [op |-> "shl_and", pos |-> "XCAN_TxDMA2_TDO", mask |-> "XCAN_TxDMA2_TDO"],
        GET |-> [op |-> "and_shr", pos |-> "XCAN_TxDMA2_TDO", mask |-> "XCAN_TxDMA2_TDO"],
        reg |-> "XCAN_TxDMAinfoCtrl2", bitfield |-> "TDO" ],
      [ name |-> "XCAN_TxDMA2_NHDO", Pos |-> 2,
        Mask |-> [lit |-> Hex(<<3, 15, 15>>), pos |-> "XCAN_TxDMA2_NHDO"],
        SET |-> [op |-> "shl_and", pos |-> "XCAN_TxDMA2_NHDO", mask |-> "XCAN_TxDMA2_NHDO"],
        GET |-> [op |-> "and_shr", pos |-> "XCAN_TxDMA2_NHDO", mask |-> "XCAN_TxDMA2_NHDO"],
        reg |-> "XCAN_TxDMAinfoCtrl2", bitfield |-> "" ],
      [ name |-> "XCAN_TxDMA2_IN", Pos |-> 13,
        Mask |-> [lit |-> Hex(<<7>>), pos |-> "XCAN_TxDMA2_IN"],
        SET |-> [op |-> "shl_and", pos |-> "XCAN_TxDMA2_IN", mask |-> "XCAN_TxDMA2_IN"],
        GET |-> [op |-> "and_shr", pos |-> "XCAN_TxDMA2_IN", mask |-> "XCAN_TxDMA2_IN"],
        reg |-> "XCAN_TxDMAinfoCtrl2", bitfield |-> "IN" ],
      [ name |-> "XCAN_TxDMA2_SIZE", Pos |-> 16,
        Mask |-> [lit |-> Hex(<<3, 15, 15>>), pos |-> "XCAN_TxDMA2_SIZE"],
        SET |-> [op |-> "shl_and", pos |-> "XCAN_TxDMA2_SIZE", mask |-> "XCAN_TxDMA2_SIZE"],
        GET |-> [op |-> "and_shr", pos |-> "XCAN_TxDMA2_SIZE", mask |-> "XCAN_TxDMA2_SIZE"],
        reg |-> "XCAN_TxDMAinfoCtrl2", bitfield |-> "SIZE" ]
    >>,
    flags |-> <<
      [ name |-> "XCAN_TxDMA1_PLSRC_IN_DATA_CONTAINER", lit |-> 1, shift |-> 26, bitfield |-> "PLSRC" ]
    >>,
    zeros |-> <<
      [ name |-> "XCAN_TxDMA1_PLSRC_IN_TX_DESCRIPTOR", lit |-> 0, shift |-> 26, bitfield |-> "PLSRC" ]
    >> ]

XCAN_TxMessageHeader0 ==
  [ name |-> "XCAN_TxMessageHeader0",
    views |-> <<
      [ view |-> "CAN20", fields |-> <<
        <<"ExtID", 18>>, <<"BaseID", 11>>, <<"XTD", 1>>, <<"XLF", 1>>, <<"FDF", 1>> >> ],
      [ view |-> "CANFD", fields |-> <<
        <<"ExtID", 18>>, <<"BaseID", 11>>, <<"XTD", 1>>, <<"XLF", 1>>, <<"FDF", 1>> >> ],
      [ view |-> "CANXL", fields |-> <<
        <<"SDT", 8>>, <<"VCID", 8>>, <<"SEC", 1>>, <<"RRS", 1>>, <<"PrioID", 11>>, <<"XTD", 1>>,
        <<"XLF", 1>>, <<"FDF", 1>> >> ]
    >>,
    macros |-> <<
      [ name |-> "XCAN_T0_ID", Pos |-> 0,
        Mask |-> [lit |-> Hex(<<1, 15, 15, 15, 15, 15, 15, 15>>), pos |-> "XCAN_T0_ID"],
        SET |-> [op |-> "shl_and", pos |-> "XCAN_T0_ID", mask |-> "XCAN_T0_ID"],
        GET |-> [op |-> "none", pos |-> "", mask |-> ""],
        reg |-> "XCAN_TxMessageHeader0", bitfield |-> "" ],
      [ name |-> "XCAN_T0_EID", Pos |-> 0,
        Mask |-> [lit |-> Hex(<<3, 15, 15, 15, 15>>), pos |-> "XCAN_T0_EID"],
        SET |-> [op |-> "shl_and", pos |-> "XCAN_T0_EID", mask |-> "XCAN_T0_EID"],
        GET |-> [op |-> "none", pos |-> "", mask |-> ""],
        reg |-> "XCAN_TxMessageHeader0", bitfield |-> "" ],
      [ name |-> "XCAN_T0_SID", Pos |-> 18,
        Mask |-> [lit |-> Hex(<<7, 15, 15>>), pos |-> "XCAN_T0_SID"],
        SET |-> [op |-> "shl_and", pos |-> "XCAN_T0_SID", mask |-> "XCAN_T0_SID"],
        GET |-> [op |-> "none", pos |-> "", mask |-> ""],
        reg |-> "XCAN_TxMessageHeader0", bitfield |-> "" ]
    >>,
    flags |-> << >>,
    zeros |-> << >> ]

\* XCAN_TxMessageHeader1 with the reserved bits 21-24 of the CANFD overlay declared : 5.
XCAN_TxMessageHeader1_WideReserved ==
  [ name |-> "XCAN_TxMessageHeader1",
    views |-> <<
      [ view |-> "CAN20", fields |-> <<
        <<"", 16>>, <<"DLC", 4>>, <<"", 6>>, <<"RTR", 1>>, <<"", 3>>, <<"FIR", 1>>, <<"", 1>> >> ],
      [ view |-> "CANFD", fields |-> <<
        <<"", 16>>, <<"DLC", 4>>, <<"ESI", 1>>, <<"", 5>>, <<"BRS", 1>>, <<"", 1>>, <<"", 3>>,
        <<"FIR", 1>>, <<"", 1>> >> ],
      [ view |-> "CANXL", fields |-> <<
        <<"", 16>>, <<"DLCXL", 11>>, <<"", 3>>, <<"FIR", 1>>, <<"", 1>> >> ]
    >>,
    macros |-> <<
      [ name |-> "XCAN_T1_CANXL_DLC", Pos |-> 16,
        Mask |-> [lit |-> Hex(<<7, 15, 15>>), pos |-> "XCAN_T1_CANXL_DLC"],
        SET |-> [op |-> "shl_and", pos |-> "XCAN_T1_CANXL_DLC", mask |-> "XCAN_T1_CANXL_DLC"],
        GET |-> [op |-> "none", pos |-> "", mask |-> ""],
        reg |-> "XCAN_TxMessageHeader1", bitfield |-> "" ],
      [ name |-> "XCAN_T1_DLC", Pos |-> 16,
        Mask |-> [lit |-> Hex(<<15>>), pos |-> "XCAN_T1_DLC"],
        SET |-> [op |-> "shl_and", pos |-> "XCAN_T1_DLC", mask |-> "XCAN_T1_DLC"],
        GET |-> [op |-> "none", pos |-> "", mask |-> ""],
        reg |-> "XCAN_TxMessageHeader1", bitfield |-> "" ]
    >>,
    flags |-> << >>,
    zeros |-> << >> ]

XCAN_TxMessageHeader1 ==
  [ name |-> "XCAN_TxMessageHeader1",
    views |-> <<
      [ view |-> "CAN20", fields |-> <<
        <<"", 16>>, <<"DLC", 4>>, <<"", 6>>, <<"RTR", 1>>, <<"", 3>>, <<"FIR", 1>>, <<"", 1>> >> ],
      [ view |-> "CANFD", fields |-> <<
        <<"", 16>>, <<"DLC", 4>>, <<"ESI", 1>>, <<"", 4>>, <<"BRS", 1>>, <<"", 1>>, <<"", 3>>,
        <<"FIR", 1>>, <<"", 1>> >> ],
      [ view |-> "CANXL", fields |-> <<
        <<"", 16>>, <<"DLCXL", 11>>, <<"", 3>>, <<"FIR", 1>>, <<"", 1>> >> ]
    >>,
    macros |-> <<
      [ name |-> "XCAN_T1_CANXL_DLC", Pos |-> 16,
        Mask |-> [lit |-> Hex(<<7, 15, 15>>), pos |-> "XCAN_T1_CANXL_DLC"],
        SET |-> [op |-> "shl_and", pos |-> "XCAN_T1_CANXL_DLC", mask |-> "XCAN_T1_CANXL_DLC"],
        GET |-> [op |-> "none", pos |-> "", mask |-> ""],
        reg |-> "XCAN_TxMessageHeader1", bitfield |-> "" ],
      [ name |-> "XCAN_T1_DLC", Pos |-> 16,
        Mask |-> [lit |-> Hex(<<15>>), pos |-> "XCAN_T1_DLC"],
        SET |-> [op |-> "shl_and", pos |-> "XCAN_T1_DLC", mask |-> "XCAN_T1_DLC"],
        GET |-> [op |-> "none", pos |-> "", mask |-> ""],
        reg |-> "XCAN_TxMessageHeader1", bitfield |-> "" ]
    >>,
    flags |-> << >>,
    zeros |-> << >> ]

XCAN_RxDMAinfoCtrl1 ==
  [ name |-> "XCAN_RxDMAinfoCtrl1",
    views |-> <<
      [ view |-> "", fields |-> <<
        <<"STS", 4>>, <<"RC", 5>>, <<"IN", 3>>, <<"FQN", 4>>, <<"CRC", 9>>, <<"", 2>>, <<"IRQ", 1>>,
        <<"NEXT", 1>>, <<"", 1>>, <<"HD", 1>>, <<"VALID", 1>> >> ]
    >>,
    macros |-> <<
      [ name |-> "XCAN_RxDMA1_STS", Pos |-> 0,
        Mask |-> [lit |-> Hex(<<15>>), pos |-> "XCAN_RxDMA1_STS"],
        SET |-> [op |-> "shl_and", pos |-> "XCAN_RxDMA1_STS", mask |-> "XCAN_RxDMA1_STS"],
        GET |-> [op |-> "and_shr", pos |-> "XCAN_RxDMA1_STS", mask |-> "XCAN_RxDMA1_STS"],
        reg |-> "XCAN_RxDMAinfoCtrl1", bitfield |-> "STS" ],
      [ name |-> "XCAN_RxDMA1_RC", Pos |-> 4,
        Mask |-> [lit |-> Hex(<<1, 15>>), pos |-> "XCAN_RxDMA1_RC"],
        SET |-> [op |-> "shl_and", pos |-> "XCAN_RxDMA1_RC", mask |-> "XCAN_RxDMA1_RC"],
        GET |-> [op |-> "and_shr", pos |-> "XCAN_RxDMA1_RC", mask |-> "XCAN_RxDMA1_RC"],
        reg |-> "XCAN_RxDMAinfoCtrl1", bitfield |-> "RC" ],
      [ name |-> "XCAN_RxDMA1_FQN", Pos |-> 12,
        Mask |-> [lit |-> Hex(<<15>>), pos |-> "XCAN_RxDMA1_FQN"],
        SET |-> [op |-> "shl_and", pos |-> "XCAN_RxDMA1_FQN", mask |-> "XCAN_RxDMA1_FQN"],
        GET |-> [op |-> "and_shr", pos |-> "XCAN_RxDMA1_FQN", mask |-> "XCAN_RxDMA1_FQN"],
        reg |-> "XCAN_RxDMAinfoCtrl1", bitfield |-> "FQN" ],
      [ name |-> "XCAN_RxDMA1_CRC", Pos |-> 16,
        Mask |-> [lit |-> Hex(<<1, 15, 15>>), pos |-> "XCAN_RxDMA1_CRC"],
        SET |-> [op |-> "shl_and", pos |-> "XCAN_RxDMA1_CRC", mask |-> "XCAN_RxDMA1_CRC"],
        GET |-> [op |-> "and_shr", pos |-> "XCAN_RxDMA1_CRC", mask |-> "XCAN_RxDMA1_CRC"],
        reg |-> "XCAN_RxDMAinfoCtrl1", bitfield |-> "CRC" ]
    >>,
    flags |-> <<
      [ name |-> "XCAN_RxDMA1_IRQ_WHEN_SENT", lit |-> 1, shift |-> 27, bitfield |-> "IRQ" ],
      [ name |-> "XCAN_RxDMA1_NEXT_HAVE_NEXT_DESCRIPTOR", lit |-> 1, shift |-> 28, bitfield |-> "NEXT" ],
      [ name |-> "XCAN_RxDMA1_HD", lit |-> 1, shift |-> 30, bitfield |-> "HD" ],
      [ name |-> "XCAN_RxDMA1_VALID_SET_VALID_FOR_MH", lit |-> 1, shift |-> 31, bitfield |-> "VALID" ]
    >>,
    zeros |-> <<
      [ name |-> "XCAN_RxDMA1_IRQ_NO_IRQ", lit |-> 0, shift |-> 27, bitfield |-> "IRQ" ],
      [ name |-> "XCAN_RxDMA1_NO_NEXT_DESCRIPTOR", lit |-> 0, shift |-> 28, bitfield |-> "NEXT" ]
    >> ]

XCAN_RxMessageHeader0 ==
  [ name |-> "XCAN_RxMessageHeader0",
    views |-> <<
      [ view |-> "CAN20", fields |-> <<
        <<"ExtID", 18>>, <<"BaseID", 11>>, <<"XTD", 1>>, <<"XLF", 1>>, <<"FDF", 1>> >> ],
      [ view |-> "CANFD", fields |-> <<
        <<"ExtID", 18>>, <<"BaseID", 11>>, <<"XTD", 1>>, <<"XLF", 1>>, <<"FDF", 1>> >> ],
      [ view |-> "CANXL", fields |-> <<
        <<"SDT", 8>>, <<"VCID", 8>>, <<"SEC", 1>>, <<"RRS", 1>>, <<"PrioID", 11>>, <<"", 1>>,
        <<"XLF", 1>>, <<"FDF", 1>> >> ]
    >>,
    macros |-> <<
      [ name |-> "XCAN_R0_ID", Pos |-> 0,
        Mask |-> [lit |-> Hex(<<1, 15, 15, 15, 15, 15, 15, 15>>), pos |-> "XCAN_R0_ID"],
        SET |-> [op |-> "none", pos |-> "", mask |-> ""],
        GET |-> [op |-> "and_shr", pos |-> "XCAN_R0_ID", mask |-> "XCAN_R0_ID"],
        reg |-> "XCAN_RxMessageHeader0", bitfield |-> "" ],
      [ name |-> "XCAN_R0_EID", Pos |-> 0,
        Mask |-> [lit |-> Hex(<<3, 15, 15, 15, 15>>), pos |-> "XCAN_R0_EID"],
        SET |-> [op |-> "none", pos |-> "", mask |-> ""],
        GET |-> [op |-> "and_shr", pos |-> "XCAN_R0_EID", mask |-> "XCAN_R0_EID"],
        reg |-> "XCAN_RxMessageHeader0", bitfield |-> "" ],
      [ name |-> "XCAN_R0_SID", Pos |-> 18,
        Mask |-> [lit |-> Hex(<<7, 15, 15>>), pos |-> "XCAN_R0_SID"],
        SET |-> [op |-> "none", pos |-> "", mask |-> ""],
        GET |-> [op |-> "and_shr", pos |-> "XCAN_R0_SID", mask |-> "XCAN_R0_SID"],
        reg |-> "XCAN_RxMessageHeader0", bitfield |-> "" ]
    >>,
    flags |-> << >>,
    zeros |-> << >> ]

XCAN_RxMessageHeader1 ==
  [ name |-> "XCAN_RxMessageHeader1",
    views |-> <<
      [ view |-> "CAN20", fields |-> <<
        <<"FIDX", 8>>, <<"FM", 1>>, <<"BLK", 1>>, <<"FAB", 1>>, <<"", 5>>, <<"DLC", 4>>, <<"", 6>>,
        <<"RTR", 1>>, <<"", 5>> >> ],
      [ view |-> "CANFD", fields |-> <<
        <<"FIDX", 8>>, <<"FM", 1>>, <<"BLK", 1>>, <<"FAB", 1>>, <<"", 5>>, <<"DLC", 4>>,
        <<"ESI", 1>>, <<"", 4>>, <<"BRS", 1>>, <<"", 6>> >> ],
      [ view |-> "CANXL", fields |-> <<
        <<"FIDX", 8>>, <<"FM", 1>>, <<"BLK", 1>>, <<"FAB", 1>>, <<"", 5>>, <<"DLCXL", 11>>,
        <<"", 5>> >> ]
    >>,
    macros |-> <<
      [ name |-> "XCAN_R1_FIDX", Pos |-> 0,
        Mask |-> [lit |-> Hex(<<15, 15>>), pos |-> "XCAN_R1_FIDX"],
        SET |-> [op |-> "and_shr", pos |-> "XCAN_R1_FIDX", mask |-> "XCAN_R1_FIDX"],
        GET |-> [op |-> "none", pos |-> "", mask |-> ""],
        reg |-> "XCAN_RxMessageHeader1", bitfield |-> "" ],
      [ name |-> "XCAN_R1_CANXL_DLC", Pos |-> 16,
        Mask |-> [lit |-> Hex(<<7, 15, 15>>), pos |-> "XCAN_R1_CANXL_DLC"],
        SET |-> [op |-> "and_shr", pos |-> "XCAN_R1_CANXL_DLC", mask |-> "XCAN_R1_CANXL_DLC"],
        GET |-> [op |-> "none", pos |-> "", mask |-> ""],
        reg |-> "XCAN_RxMessageHeader1", bitfield |-> "" ],
      [ name |-> "XCAN_R1_DLC", Pos |-> 16,
        Mask |-> [lit |-> Hex(<<15>>), pos |-> "XCAN_R1_DLC"],
        SET |-> [op |-> "and_shr", pos |-> "XCAN_R1_DLC", mask |-> "XCAN_R1_DLC"],
        GET |-> [op |-> "none", pos |-> "", mask |-> ""],
        reg |-> "XCAN_RxMessageHeader1", bitfield |-> "" ]
    >>,
    flags |-> << >>,
    zeros |-> << >> ]

XCAN_RX_FQ_ADD_PT_Register ==
  [ name |-> "XCAN_RX_FQ_ADD_PT_Register",
    views |-> << >>,
    macros |-> <<
      [ name |-> "XCAN_RX_FQ_ADD_PT", Pos |-> 0,
        Mask |-> [lit |-> Hex(<<15, 15, 15, 15, 15, 15, 15, 12>>), pos |-> "XCAN_RX_FQ_RD_ADD_PT"],
        SET |-> [op |-> "none", pos |-> "", mask |-> ""],
        GET |-> [op |-> "and_shr", pos |-> "XCAN_RX_FQ_RD_ADD_PT", mask |-> "XCAN_RX_FQ_RD_ADD_PT"],
        reg |-> "XCAN_RX_FQ_ADD_PT_Register", bitfield |-> "" ]
    >>,
    flags |-> << >>,
    zeros |-> << >> ]

XCAN_RX_FQ_SIZE_Register ==
  [ name |-> "XCAN_RX_FQ_SIZE_Register",
    views |-> <<
      [ view |-> "Bits", fields |-> <<
        <<"MAX_DESC", 10>>, <<"", 8>>, <<"DC_SIZE", 12>>, <<"", 4>> >> ]
    >>,
    macros |-> <<
      [ name |-> "XCAN_RX_FQ_SIZE_MAX_DESC", Pos |-> 0,
        Mask |-> [lit |-> Hex(<<3, 15>>), pos |-> "XCAN_RX_FQ_SIZE_MAX_DESC"],
        SET |-> [op |-> "shl_and", pos |-> "XCAN_RX_FQ_SIZE_MAX_DESC", mask |-> "XCAN_RX_FQ_SIZE_MAX_DESC"],
        GET |-> [op |-> "and_shr", pos |-> "XCAN_RX_FQ_SIZE_MAX_DESC", mask |-> "XCAN_RX_FQ_SIZE_MAX_DESC"],
        reg |-> "XCAN_RX_FQ_SIZE_Register", bitfield |-> "MAX_DESC" ],
      [ name |-> "XCAN_RX_FQ_SIZE_DC_SIZE", Pos |-> 16,
        Mask |-> [lit |-> Hex(<<15, 15, 15>>), pos |-> "XCAN_RX_FQ_SIZE_DC_SIZE"],
        SET |-> [op |-> "shl_and", pos |-> "XCAN_RX_FQ_SIZE_DC_SIZE", mask |-> "XCAN_RX_FQ_SIZE_DC_SIZE"],
        GET |-> [op |-> "and_shr", pos |-> "XCAN_RX_FQ_SIZE_DC_SIZE", mask |-> "XCAN_RX_FQ_SIZE_DC_SIZE"],
        reg |-> "XCAN_RX_FQ_SIZE_Register", bitfield |-> "DC_SIZE" ]
    >>,
    flags |-> << >>,
    zeros |-> << >> ]

XCAN_RX_FQ_DC_START_ADD_Register ==
  [ name |-> "XCAN_RX_FQ_DC_START_ADD_Register",
    views |-> << >>,
    macros |-> <<
      [ name |-> "XCAN_RX_FQ_DC_START_ADD", Pos |-> 0,
        Mask |-> [lit |-> Hex(<<15, 15, 15, 15, 15, 15, 15, 12>>), pos |-> "XCAN_RX_FQ_DC_START_ADD"],
        SET |-> [op |-> "shl_and", pos |-> "XCAN_RX_FQ_DC_START_ADD", mask |-> "XCAN_RX_FQ_DC_START_ADD"],
        GET |-> [op |-> "and_shr", pos |-> "XCAN_RX_FQ_DC_START_ADD", mask |-> "XCAN_RX_FQ_DC_START_ADD"],
        reg |-> "XCAN_RX_FQ_DC_START_ADD_Register", bitfield |-> "" ]
    >>,
    flags |-> << >>,
    zeros |-> << >> ]

XCAN_RX_FQ_RD_ADD_PT_Register ==
  [ name |-> "XCAN_RX_FQ_RD_ADD_PT_Register",
    views |-> << >>,
    macros |-> <<
      [ name |-> "XCAN_RX_FQ_RD_ADD_PT", Pos |-> 0,
        Mask |-> [lit |-> Hex(<<15, 15, 15, 15, 15, 15, 15, 12>>), pos |-> "XCAN_RX_FQ_RD_ADD_PT"],
        SET |-> [op |-> "shl_and", pos |-> "XCAN_RX_FQ_RD_ADD_PT", mask |-> "XCAN_RX_FQ_RD_ADD_PT"],
        GET |-> [op |-> "and_shr", pos |-> "XCAN_RX_FQ_RD_ADD_PT", mask |-> "XCAN_RX_FQ_RD_ADD_PT"],
        reg |-> "XCAN_RX_FQ_RD_ADD_PT_Register", bitfield |-> "" ]
    >>,
    flags |-> << >>,
    zeros |-> << >> ]

XCAN_TX_FILTER_CTRL0_Register ==
  [ name |-> "XCAN_TX_FILTER_CTRL0_Register",
    views |-> <<
      [ view |-> "Bits", fields |-> <<
        <<"COMB", 8>>, <<"MASK", 8>>, <<"MODE", 1>>, <<"CAN_FD", 1>>, <<"CC_CAN", 1>>, <<"EN", 1>>,
        <<"IRQ_EN", 1>>, <<"", 11>> >> ]
    >>,
    macros |-> <<
      [ name |-> "XCAN_TX_FILTER_CTRL0_COMB", Pos |-> 0,
        Mask |-> [lit |-> Hex(<<15, 15>>), pos |-> "XCAN_TX_FILTER_CTRL0_COMB"],
        SET |-> [op |-> "shl_and", pos |-> "XCAN_TX_FILTER_CTRL0_COMB", mask |-> "XCAN_TX_FILTER_CTRL0_COMB"],
        GET |-> [op |-> "and_shr", pos |-> "XCAN_TX_FILTER_CTRL0_COMB", mask |-> "XCAN_TX_FILTER_CTRL0_COMB"],
        reg |-> "XCAN_TX_FILTER_CTRL0_Register", bitfield |-> "COMB" ],
      [ name |-> "XCAN_TX_FILTER_CTRL0_MASK", Pos |-> 8,
        Mask |-> [lit |-> Hex(<<15, 15>>), pos |-> "XCAN_TX_FILTER_CTRL0_MASK"],
        SET |-> [op |-> "shl_and", pos |-> "XCAN_TX_FILTER_CTRL0_MASK", mask |-> "XCAN_TX_FILTER_CTRL0_MASK"],
        GET |-> [op |-> "and_shr", pos |-> "XCAN_TX_FILTER_CTRL0_MASK", mask |-> "XCAN_TX_FILTER_CTRL0_MASK"],
        reg |-> "XCAN_TX_FILTER_CTRL0_Register", bitfield |-> "MASK" ]
    >>,
    flags |-> << >>,
    zeros |-> << >> ]

XCAN_TX_FILTER_CTRL1_Register ==
  [ name |-> "XCAN_TX_FILTER_CTRL1_Register",
    views |-> <<
      [ view |-> "Bits", fields |-> <<
        <<"VALID", 16>>, <<"FIELD", 16>> >> ]
    >>,
    macros |-> <<
      [ name |-> "XCAN_TX_FILTER_CTRL1_VALID", Pos |-> 0,
        Mask |-> [lit |-> Hex(<<15, 15, 15, 15>>), pos |-> "XCAN_TX_FILTER_CTRL1_VALID"],
        SET |-> [op |-> "shl_and", pos |-> "XCAN_TX_FILTER_CTRL1_VALID", mask |-> "XCAN_TX_FILTER_CTRL1_VALID"],
        GET |-> [op |-> "and_shr", pos |-> "XCAN_TX_FILTER_CTRL1_VALID", mask |-> "XCAN_TX_FILTER_CTRL1_VALID"],
        reg |-> "XCAN_TX_FILTER_CTRL1_Register", bitfield |-> "VALID" ],
      [ name |-> "XCAN_TX_FILTER_CTRL1_FIELD", Pos |-> 16,
        Mask |-> [lit |-> Hex(<<15, 15, 15, 15>>), pos |-> "XCAN_TX_FILTER_CTRL1_FIELD"],
        SET |-> [op |-> "shl_and", pos |-> "XCAN_TX_FILTER_CTRL1_FIELD", mask |-> "XCAN_TX_FILTER_CTRL1_FIELD"],
        GET |-> [op |-> "and_shr", pos |-> "XCAN_TX_FILTER_CTRL1_FIELD", mask |-> "XCAN_TX_FILTER_CTRL1_FIELD"],
        reg |-> "XCAN_TX_FILTER_CTRL1_Register", bitfield |-> "FIELD" ]
    >>,
    flags |-> << >>,
    zeros |-> << >> ]

XCAN_TX_FILTER_REFVAL_Register ==
  [ name |-> "XCAN_TX_FILTER_REFVAL_Register",
    views |-> <<
      [ view |-> "Bits", fields |-> <<
        <<"REF_VAL0", 8>>, <<"REF_VAL1", 8>>, <<"REF_VAL2", 8>>, <<"REF_VAL3", 8>> >> ]
    >>,
    macros |-> <<
      [ name |-> "XCAN_TX_FILTER_REFVAL0", Pos |-> 0,
        Mask |-> [lit |-> Hex(<<15, 15>>), pos |-> "XCAN_TX_FILTER_REFVAL0"],
        SET |-> [op |-> "shl_and", pos |-> "XCAN_TX_FILTER_REFVAL0", mask |-> "XCAN_TX_FILTER_REFVAL0"],
        GET |-> [op |-> "and_shr", pos |-> "XCAN_TX_FILTER_REFVAL0", mask |-> "XCAN_TX_FILTER_REFVAL0"],
        reg |-> "XCAN_TX_FILTER_REFVAL_Register", bitfield |-> "" ],
      [ name |-> "XCAN_TX_FILTER_REFVAL1", Pos |-> 8,
        Mask |-> [lit |-> Hex(<<15, 15>>), pos |-> "XCAN_TX_FILTER_REFVAL1"],
        SET |-> [op |-> "shl_and", pos |-> "XCAN_TX_FILTER_REFVAL1", mask |-> "XCAN_TX_FILTER_REFVAL1"],
        GET |-> [op |-> "and_shr", pos |-> "XCAN_TX_FILTER_REFVAL1", mask |-> "XCAN_TX_FILTER_REFVAL1"],
        reg |-> "XCAN_TX_FILTER_REFVAL_Register", bitfield |-> "" ],
      [ name |-> "XCAN_TX_FILTER_REFVAL2", Pos |-> 16,
        Mask |-> [lit |-> Hex(<<15, 15>>), pos |-> "XCAN_TX_FILTER_REFVAL2"],
        SET |-> [op |-> "shl_and", pos |-> "XCAN_TX_FILTER_REFVAL2", mask |-> "XCAN_TX_FILTER_REFVAL2"],
        GET |-> [op |-> "and_shr", pos |-> "XCAN_TX_FILTER_REFVAL2", mask |-> "XCAN_TX_FILTER_REFVAL2"],
        reg |-> "XCAN_TX_FILTER_REFVAL_Register", bitfield |-> "" ],
      [ name |-> "XCAN_TX_FILTER_REFVAL3", Pos |-> 24,
        Mask |-> [lit |-> Hex(<<15, 15>>), pos |-> "XCAN_TX_FILTER_REFVAL3"],
        SET |-> [op |-> "shl_and", pos |-> "XCAN_TX_FILTER_REFVAL3", mask |-> "XCAN_TX_FILTER_REFVAL3"],
        GET |-> [op |-> "and_shr", pos |-> "XCAN_TX_FILTER_REFVAL3", mask |-> "XCAN_TX_FILTER_REFVAL3"],
        reg |-> "XCAN_TX_FILTER_REFVAL_Register", bitfield |-> "" ]
    >>,
    flags |-> << >>,
    zeros |-> << >> ]

XCAN_RX_FILTER_CTRL_Register ==
  [ name |-> "XCAN_RX_FILTER_CTRL_Register",
    views |-> <<
      [ view |-> "Bits", fields |-> <<
        <<"NB_FE", 8>>, <<"THRESHOLD", 5>>, <<"", 3>>, <<"ANMF_FQ", 3>>, <<"", 1>>, <<"ANMF", 1>>,
        <<"ANFF", 1>>, <<"", 10>> >> ]
    >>,
    macros |-> <<
      [ name |-> "XCAN_RX_FILTER_CTRL_NB_FE", Pos |-> 0,
        Mask |-> [lit |-> Hex(<<15, 15>>), pos |-> "XCAN_RX_FILTER_CTRL_NB_FE"],
        SET |-> [op |-> "shl_and", pos |-> "XCAN_RX_FILTER_CTRL_NB_FE", mask |-> "XCAN_RX_FILTER_CTRL_NB_FE"],
        GET |-> [op |-> "and_shr", pos |-> "XCAN_RX_FILTER_CTRL_NB_FE", mask |-> "XCAN_RX_FILTER_CTRL_NB_FE"],
        reg |-> "XCAN_RX_FILTER_CTRL_Register", bitfield |-> "NB_FE" ],
      [ name |-> "XCAN_RX_FILTER_CTRL_THRESHOLD", Pos |-> 8,
        Mask |-> [lit |-> Hex(<<1, 15>>), pos |-> "XCAN_RX_FILTER_CTRL_THRESHOLD"],
        SET |-> [op |-> "shl_and", pos |-> "XCAN_RX_FILTER_CTRL_THRESHOLD", mask |-> "XCAN_RX_FILTER_CTRL_THRESHOLD"],
        GET |-> [op |-> "and_shr", pos |-> "XCAN_RX_FILTER_CTRL_THRESHOLD", mask |-> "XCAN_RX_FILTER_CTRL_THRESHOLD"],
        reg |-> "XCAN_RX_FILTER_CTRL_Register", bitfield |-> "THRESHOLD" ],
      [ name |-> "XCAN_RX_FILTER_CTRL_ANMF_FQ", Pos |-> 16,
        Mask |-> [lit |-> Hex(<<7>>), pos |-> "XCAN_RX_FILTER_CTRL_ANMF_FQ"],
        SET |-> [op |-> "shl_and", pos |-> "XCAN_RX_FILTER_CTRL_ANMF_FQ", mask |-> "XCAN_RX_FILTER_CTRL_ANMF_FQ"],
        GET |-> [op |-> "and_shr", pos |-> "XCAN_RX_FILTER_CTRL_ANMF_FQ", mask |-> "XCAN_RX_FILTER_CTRL_ANMF_FQ"],
        reg |-> "XCAN_RX_FILTER_CTRL_Register", bitfield |-> "ANMF_FQ" ]
    >>,
    flags |-> << >>,
    zeros |-> << >> ]

XCAN_TX_FQ_INT_STS_Register ==
  [ name |-> "XCAN_TX_FQ_INT_STS_Register",
    views |-> <<
      [ view |-> "Bits", fields |-> <<
        <<"SENT", 8>>, <<"", 8>>, <<"UNVALID", 8>>, <<"", 8>> >> ]
    >>,
    macros |-> <<
      [ name |-> "XCAN_TX_FQ_INT_STS_RECEIVED", Pos |-> 0,
        Mask |-> [lit |-> Hex(<<15, 15>>), pos |-> "XCAN_TX_FQ_INT_STS_RECEIVED"],
        SET |-> [op |-> "shl_and", pos |-> "XCAN_TX_FQ_INT_STS_RECEIVED", mask |-> "XCAN_TX_FQ_INT_STS_RECEIVED"],
        GET |-> [op |-> "and_shr", pos |-> "XCAN_TX_FQ_INT_STS_RECEIVED", mask |-> "XCAN_TX_FQ_INT_STS_RECEIVED"],
        reg |-> "XCAN_TX_FQ_INT_STS_Register", bitfield |-> "" ],
      [ name |-> "XCAN_TX_FQ_INT_STS_UNVALID", Pos |-> 16,
        Mask |-> [lit |-> Hex(<<15, 15>>), pos |-> "XCAN_TX_FQ_INT_STS_UNVALID"],
        SET |-> [op |-> "shl_and", pos |-> "XCAN_TX_FQ_INT_STS_UNVALID", mask |-> "XCAN_TX_FQ_INT_STS_UNVALID"],
        GET |-> [op |-> "and_shr", pos |-> "XCAN_TX_FQ_INT_STS_UNVALID", mask |-> "XCAN_TX_FQ_INT_STS_UNVALID"],
        reg |-> "XCAN_TX_FQ_INT_STS_Register", bitfield |-> "UNVALID" ]
    >>,
    flags |-> << >>,
    zeros |-> << >> ]

XCAN_RX_FQ_INT_STS_Register ==
  [ name |-> "XCAN_RX_FQ_INT_STS_Register",
    views |-> <<
      [ view |-> "Bits", fields |-> <<
        <<"RECEIVED", 8>>, <<"", 8>>, <<"UNVALID", 8>>, <<"", 8>> >> ]
    >>,
    macros |-> <<
      [ name |-> "XCAN_RX_FQ_INT_STS_RECEIVED", Pos |-> 0,
        Mask |-> [lit |-> Hex(<<15, 15>>), pos |-> "XCAN_RX_FQ_INT_STS_RECEIVED"],
        SET |-> [op |-> "shl_and", pos |-> "XCAN_RX_FQ_INT_STS_RECEIVED", mask |-> "XCAN_RX_FQ_INT_STS_RECEIVED"],
        GET |-> [op |-> "and_shr", pos |-> "XCAN_RX_FQ_INT_STS_RECEIVED", mask |-> "XCAN_RX_FQ_INT_STS_RECEIVED"],
        reg |-> "XCAN_RX_FQ_INT_STS_Register", bitfield |-> "RECEIVED" ],
      [ name |-> "XCAN_RX_FQ_INT_STS_UNVALID", Pos |-> 16,
        Mask |-> [lit |-> Hex(<<15, 15>>), pos |-> "XCAN_RX_FQ_INT_STS_UNVALID"],
        SET |-> [op |-> "shl_and", pos |-> "XCAN_RX_FQ_INT_STS_UNVALID", mask |-> "XCAN_RX_FQ_INT_STS_UNVALID"],
        GET |-> [op |-> "and_shr", pos |-> "XCAN_RX_FQ_INT_STS_UNVALID", mask |-> "XCAN_RX_FQ_INT_STS_UNVALID"],
        reg |-> "XCAN_RX_FQ_INT_STS_Register", bitfield |-> "UNVALID" ]
    >>,
    flags |-> << >>,
    zeros |-> << >> ]

XCAN_TX_PQ_INT_STS0_Register ==
  [ name |-> "XCAN_TX_PQ_INT_STS0_Register",
    views |-> << >>,
    macros |-> <<
      [ name |-> "XCAN_TX_PQ_INT_STS0", Pos |-> 0,
        Mask |-> [lit |-> Hex(<<15, 15, 15, 15, 15, 15, 15, 15>>), pos |-> "XCAN_TX_PQ_INT_STS0"],
        SET |-> [op |-> "shl_and", pos |-> "XCAN_TX_PQ_INT_STS0", mask |-> "XCAN_TX_PQ_INT_STS0"],
        GET |-> [op |-> "and_shr", pos |-> "XCAN_TX_PQ_INT_STS0", mask |-> "XCAN_TX_PQ_INT_STS0"],
        reg |-> "XCAN_TX_PQ_INT_STS0_Register", bitfield |-> "" ]
    >>,
    flags |-> << >>,
    zeros |-> << >> ]

XCAN_TX_PQ_INT_STS1_Register ==
  [ name |-> "XCAN_TX_PQ_INT_STS1_Register",
    views |-> << >>,
    macros |-> <<
      [ name |-> "XCAN_TX_PQ_INT_STS1", Pos |-> 0,
        Mask |-> [lit |-> Hex(<<15, 15, 15, 15, 15, 15, 15, 15>>), pos |-> "XCAN_TX_PQ_INT_STS1"],
        SET |-> [op |-> "shl_and", pos |-> "XCAN_TX_PQ_INT_STS1", mask |-> "XCAN_TX_PQ_INT_STS1"],
        GET |-> [op |-> "and_shr", pos |-> "XCAN_TX_PQ_INT_STS1", mask |-> "XCAN_TX_PQ_INT_STS1"],
        reg |-> "XCAN_TX_PQ_INT_STS1_Register", bitfield |-> "" ]
    >>,
    flags |-> << >>,
    zeros |-> << >> ]

XCAN_STATS_INT_STS_Register ==
  [ name |-> "XCAN_STATS_INT_STS_Register",
    views |-> <<
      [ view |-> "Bits", fields |-> <<
        <<"TX_SUCC", 1>>, <<"TX_UNSUCC", 1>>, <<"RX_SUCC", 1>>, <<"RX_UNSUCC", 1>>, <<"", 28>> >> ]
    >>,
    macros |-> << >>,
    flags |-> <<
      [ name |-> "XCAN_STATS_INT_STS_TX_SUCC", lit |-> 1, shift |-> 0, bitfield |-> "TX_SUCC" ],
      [ name |-> "XCAN_STATS_INT_STS_TX_UNSUCC", lit |-> 1, shift |-> 1, bitfield |-> "TX_UNSUCC" ],
      [ name |-> "XCAN_STATS_INT_STS_RX_SUCC", lit |-> 1, shift |-> 2, bitfield |-> "RX_SUCC" ],
      [ name |-> "XCAN_STATS_INT_STS_RX_UNSUCC", lit |-> 1, shift |-> 3, bitfield |-> "RX_UNSUCC" ]
    >>,
    zeros |-> << >> ]

XCAN_ERR_INT_STS_Register ==
  [ name |-> "XCAN_ERR_INT_STS_Register",
    views |-> <<
      [ view |-> "Bits", fields |-> <<
        <<"DP_TX_ACK_DO_ERR", 1>>, <<"DP_RX_FIFO_DO_ERR", 1>>, <<"DP_RX_ACK_DO_ERR", 1>>,
        <<"DP_TX_SEQ_ERR", 1>>, <<"DP_RX_SEQ_ERR", 1>>, <<"", 27>> >> ]
    >>,
    macros |-> << >>,
    flags |-> <<
      [ name |-> "XCAN_ERR_INT_STS_DP_TX_ACK_DO_ERR", lit |-> 1, shift |-> 0, bitfield |-> "DP_TX_ACK_DO_ERR" ],
      [ name |-> "XCAN_ERR_INT_STS_DP_RX_FIFO_DO_ERR", lit |-> 1, shift |-> 1, bitfield |-> "DP_RX_FIFO_DO_ERR" ],
      [ name |-> "XCAN_ERR_INT_STS_DP_RX_ACK_DO_ERR", lit |-> 1, shift |-> 2, bitfield |-> "DP_RX_ACK_DO_ERR" ],
      [ name |-> "XCAN_ERR_INT_STS_DP_TX_SEQ_ERR", lit |-> 1, shift |-> 3, bitfield |-> "DP_TX_SEQ_ERR" ],
      [ name |-> "XCAN_ERR_INT_STS_DP_RX_SEQ_ERR", lit |-> 1, shift |-> 4, bitfield |-> "DP_RX_SEQ_ERR" ]
    >>,
    zeros |-> << >> ]

XCAN_SFTY_INT_STS_Register ==
  [ name |-> "XCAN_SFTY_INT_STS_Register",
    views |-> <<
      [ view |-> "Bits", fields |-> <<
        <<"DMA_AXI_RW_R_TO_ERR", 1>>, <<"DMA_AXI_RD_TO_ERR", 1>>, <<"DP_PRT_TX_TO_ERR", 1>>,
        <<"DP_PRT_RX_TO_ERR", 1>>, <<"MEM_AXI_RW_R_TO_ERR", 1>>, <<"MEM_AXI_RD_TO_ERR", 1>>,
        <<"DP_TX_PARITY_ERR", 1>>, <<"DP_RX_PARITY_ERR", 1>>, <<"AP_TX_PARITY_ERR", 1>>,
        <<"AP_RX_PARITY_ERR", 1>>, <<"TX_DESC_REQ_ERR", 1>>, <<"TX_DESC_CRC_ERR", 1>>,
        <<"RX_DESC_REQ_ERR", 1>>, <<"RX_DESC_CRC_ERR", 1>>, <<"MEM_SFTY_UE", 1>>,
        <<"MEM_SFTY_CE", 1>>, <<"ACK_TX_PARITY_ERR", 1>>, <<"ACK_RX_PARITY_ERR", 1>>, <<"", 14>> >> ]
    >>,
    macros |-> << >>,
    flags |-> <<
      [ name |-> "XCAN_SFTY_INT_STS_DMA_AXI_RW_R_TO_ERR", lit |-> 1, shift |-> 0, bitfield |-> "DMA_AXI_RW_R_TO_ERR" ],
      [ name |-> "XCAN_SFTY_INT_STS_DMA_AXI_RD_TO_ERR", lit |-> 1, shift |-> 1, bitfield |-> "DMA_AXI_RD_TO_ERR" ],
      [ name |-> "XCAN_SFTY_INT_STS_DP_PRT_TX_TO_ERR", lit |-> 1, shift |-> 2, bitfield |-> "DP_PRT_TX_TO_ERR" ],
      [ name |-> "XCAN_SFTY_INT_STS_DP_PRT_RX_TO_ERR", lit |-> 1, shift |-> 3, bitfield |-> "DP_PRT_RX_TO_ERR" ],
      [ name |-> "XCAN_SFTY_INT_STS_MEM_AXI_RW_R_TO_ERR", lit |-> 1, shift |-> 4, bitfield |-> "MEM_AXI_RW_R_TO_ERR" ],
      [ name |-> "XCAN_SFTY_INT_STS_MEM_AXI_RD_TO_ERR", lit |-> 1, shift |-> 5, bitfield |-> "MEM_AXI_RD_TO_ERR" ],
      [ name |-> "XCAN_SFTY_INT_STS_DP_TX_PARITY_ERR", lit |-> 1, shift |-> 6, bitfield |-> "DP_TX_PARITY_ERR" ],
      [ name |-> "XCAN_SFTY_INT_STS_DP_RX_PARITY_ERR", lit |-> 1, shift |-> 7, bitfield |-> "DP_RX_PARITY_ERR" ],
      [ name |-> "XCAN_SFTY_INT_STS_AP_TX_PARITY_ERR", lit |-> 1, shift |-> 8, bitfield |-> "AP_TX_PARITY_ERR" ],
      [ name |-> "XCAN_SFTY_INT_STS_AP_RX_PARITY_ERR", lit |-> 1, shift |-> 9, bitfield |-> "AP_RX_PARITY_ERR" ],
      [ name |-> "XCAN_SFTY_INT_STS_TX_DESC_REQ_ERR", lit |-> 1, shift |-> 10, bitfield |-> "TX_DESC_REQ_ERR" ],
      [ name |-> "XCAN_SFTY_INT_STS_TX_DESC_CRC_ERR", lit |-> 1, shift |-> 11, bitfield |-> "TX_DESC_CRC_ERR" ],
      [ name |-> "XCAN_SFTY_INT_STS_RX_DESC_REQ_ERR", lit |-> 1, shift |-> 12, bitfield |-> "RX_DESC_REQ_ERR" ],
      [ name |-> "XCAN_SFTY_INT_STS_RX_DESC_CRC_ERR", lit |-> 1, shift |-> 13, bitfield |-> "RX_DESC_CRC_ERR" ],
      [ name |-> "XCAN_SFTY_INT_STS_MEM_SFTY_UE", lit |-> 1, shift |-> 14, bitfield |-> "MEM_SFTY_UE" ],
      [ name |-> "XCAN_SFTY_INT_STS_MEM_SFTY_CE", lit |-> 1, shift |-> 15, bitfield |-> "MEM_SFTY_CE" ],
      [ name |-> "XCAN_SFTY_INT_STS_ACK_TX_PARITY_ERR", lit |-> 1, shift |-> 16, bitfield |-> "ACK_TX_PARITY_ERR" ],
      [ name |-> "XCAN_SFTY_INT_STS_ACK_RX_PARITY_ERR", lit |-> 1, shift |-> 17, bitfield |-> "ACK_RX_PARITY_ERR" ]
    >>,
    zeros |-> << >> ]

XCAN_AXI_ERR_INFO_Register ==
  [ name |-> "XCAN_AXI_ERR_INFO_Register",
    views |-> <<
      [ view |-> "Bits", fields |-> <<
        <<"DMA_ID", 2>>, <<"DMA_RESP", 2>>, <<"MEM_ID", 2>>, <<"MEM_RESP", 2>>, <<"", 24>> >> ]
    >>,
    macros |-> <<
      [ name |-> "XCAN_AXI_ERR_INFO_DMA_ID", Pos |-> 0,
        Mask |-> [lit |-> Hex(<<3>>), pos |-> "XCAN_DESC_ERR_INFO1_FQN_PQSN"],
        SET |-> [op |-> "none", pos |-> "", mask |-> ""],
        GET |-> [op |-> "and_shr", pos |-> "XCAN_DESC_ERR_INFO1_FQN_PQSN", mask |-> "XCAN_DESC_ERR_INFO1_FQN_PQSN"],
        reg |-> "XCAN_AXI_ERR_INFO_Register", bitfield |-> "DMA_ID" ],
      [ name |-> "XCAN_AXI_ERR_INFO_DMA_RESP", Pos |-> 2,
        Mask |-> [lit |-> Hex(<<3>>), pos |-> "XCAN_DESC_ERR_INFO1_IN"],
        SET |-> [op |-> "none", pos |-> "", mask |-> ""],
        GET |-> [op |-> "and_shr", pos |-> "XCAN_DESC_ERR_INFO1_IN", mask |-> "XCAN_DESC_ERR_INFO1_IN"],
        reg |-> "XCAN_AXI_ERR_INFO_Register", bitfield |-> "DMA_RESP" ],
      [ name |-> "XCAN_AXI_ERR_INFO_MEM_ID", Pos |-> 4,
        Mask |-> [lit |-> Hex(<<3>>), pos |-> "XCAN_DESC_ERR_INFO1_RC"],
        SET |-> [op |-> "none", pos |-> "", mask |-> ""],
        GET |-> [op |-> "and_shr", pos |-> "XCAN_DESC_ERR_INFO1_RC", mask |-> "XCAN_DESC_ERR_INFO1_RC"],
        reg |-> "XCAN_AXI_ERR_INFO_Register", bitfield |-> "MEM_ID" ],
      [ name |-> "XCAN_AXI_ERR_INFO_MEM_RESP", Pos |-> 6,
        Mask |-> [lit |-> Hex(<<3>>), pos |-> "XCAN_DESC_ERR_INFO1_CRC"],
        SET |-> [op |-> "none", pos |-> "", mask |-> ""],
        GET |-> [op |-> "and_shr", pos |-> "XCAN_DESC_ERR_INFO1_CRC", mask |-> "XCAN_DESC_ERR_INFO1_CRC"],
        reg |-> "XCAN_AXI_ERR_INFO_Register", bitfield |-> "MEM_RESP" ]
    >>,
    flags |-> << >>,
    zeros |-> << >> ]

XCAN_DESC_ERR_INFO0_Register ==
  [ name |-> "XCAN_DESC_ERR_INFO0_Register",
    views |-> << >>,
    macros |-> <<
      [ name |-> "XCAN_DESC_ERR_INFO0_ADD", Pos |-> 0,
        Mask |-> [lit |-> Hex(<<15, 15, 15, 15, 15, 15, 15, 15>>), pos |-> "XCAN_DESC_ERR_INFO0_ADD"],
        SET |-> [op |-> "none", pos |-> "", mask |-> ""],
        GET |-> [op |-> "and_shr", pos |-> "XCAN_DESC_ERR_INFO0_ADD", mask |-> "XCAN_DESC_ERR_INFO0_ADD"],
        reg |-> "XCAN_DESC_ERR_INFO0_Register", bitfield |-> "" ]
    >>,
    flags |-> << >>,
    zeros |-> << >> ]

XCAN_DESC_ERR_INFO1_Register ==
  [ name |-> "XCAN_DESC_ERR_INFO1_Register",
    views |-> <<
      [ view |-> "Bits", fields |-> <<
        <<"FQN_PQSN", 5>>, <<"IN", 3>>, <<"PQ", 1>>, <<"RC", 5>>, <<"", 1>>, <<"RX_TX", 1>>,
        <<"CRC", 9>>, <<"", 7>> >> ]
    >>,
    macros |-> <<
      [ name |-> "XCAN_DESC_ERR_INFO1_FQN_PQSN", Pos |-> 0,
        Mask |-> [lit |-> Hex(<<1, 15>>), pos |-> "XCAN_DESC_ERR_INFO1_FQN_PQSN"],
        SET |-> [op |-> "none", pos |-> "", mask |-> ""],
        GET |-> [op |-> "and_shr", pos |-> "XCAN_DESC_ERR_INFO1_FQN_PQSN", mask |-> "XCAN_DESC_ERR_INFO1_FQN_PQSN"],
        reg |-> "XCAN_DESC_ERR_INFO1_Register", bitfield |-> "FQN_PQSN" ],
      [ name |-> "XCAN_DESC_ERR_INFO1_IN", Pos |-> 5,
        Mask |-> [lit |-> Hex(<<7>>), pos |-> "XCAN_DESC_ERR_INFO1_IN"],
        SET |-> [op |-> "none", pos |-> "", mask |-> ""],
        GET |-> [op |-> "and_shr", pos |-> "XCAN_DESC_ERR_INFO1_IN", mask |-> "XCAN_DESC_ERR_INFO1_IN"],
        reg |-> "XCAN_DESC_ERR_INFO1_Register", bitfield |-> "IN" ],
      [ name |-> "XCAN_DESC_ERR_INFO1_RC", Pos |-> 9,
        Mask |-> [lit |-> Hex(<<1, 15>>), pos |-> "XCAN_DESC_ERR_INFO1_RC"],
        SET |-> [op |-> "none", pos |-> "", mask |-> ""],
        GET |-> [op |-> "and_shr", pos |-> "XCAN_DESC_ERR_INFO1_RC", mask |-> "XCAN_DESC_ERR_INFO1_RC"],
        reg |-> "XCAN_DESC_ERR_INFO1_Register", bitfield |-> "RC" ],
      [ name |-> "XCAN_DESC_ERR_INFO1_CRC", Pos |-> 16,
        Mask |-> [lit |-> Hex(<<1, 15, 15>>), pos |-> "XCAN_DESC_ERR_INFO1_CRC"],
        SET |-> [op |-> "none", pos |-> "", mask |-> ""],
        GET |-> [op |-> "and_shr", pos |-> "XCAN_DESC_ERR_INFO1_CRC", mask |-> "XCAN_DESC_ERR_INFO1_CRC"],
        reg |-> "XCAN_DESC_ERR_INFO1_Register", bitfield |-> "CRC" ]
    >>,
    flags |-> <<
      [ name |-> "XCAN_DESC_ERR_INFO1_PQ_TX_PRIORITY_QUEUE", lit |-> 1, shift |-> 8, bitfield |-> "PQ" ]
    >>,
    zeros |-> <<
      [ name |-> "XCAN_DESC_ERR_INFO1_PQ_TX_FIFO_QUEUE", lit |-> 0, shift |-> 8, bitfield |-> "PQ" ]
    >> ]

XCAN_TX_FILTER_ERR_INFO_Register ==
  [ name |-> "XCAN_TX_FILTER_ERR_INFO_Register",
    views |-> <<
      [ view |-> "Bits", fields |-> <<
        <<"FQ", 1>>, <<"FQN_PQS", 5>>, <<"", 26>> >> ]
    >>,
    macros |-> <<
      [ name |-> "XCAN_TX_FILTER_ERR_INFO_FQN_PQS", Pos |-> 1,
        Mask |-> [lit |-> Hex(<<1, 15>>), pos |-> "XCAN_TX_FILTER_ERR_INFO_FQN_PQS"],
        SET |-> [op |-> "none", pos |-> "", mask |-> ""],
        GET |-> [op |-> "and_shr", pos |-> "XCAN_TX_FILTER_ERR_INFO_FQN_PQS", mask |-> "XCAN_TX_FILTER_ERR_INFO_FQN_PQS"],
        reg |-> "XCAN_TX_FILTER_ERR_INFO_Register", bitfield |-> "FQN_PQS" ]
    >>,
    flags |-> << >>,
    zeros |-> << >> ]

XCAN_DEBUG_TEST_CTRL_Register ==
  [ name |-> "XCAN_DEBUG_TEST_CTRL_Register",
    views |-> <<
      [ view |-> "Bits", fields |-> <<
        <<"TEST_IRQ_EN", 1>>, <<"HDP_EN", 1>>, <<"", 6>>, <<"HDP_SEL", 3>>, <<"", 21>> >> ]
    >>,
    macros |-> <<
      [ name |-> "XCAN_DEBUG_TEST_CTRL_HDP_SEL", Pos |-> 8,
        Mask |-> [lit |-> Hex(<<7>>), pos |-> "XCAN_DEBUG_TEST_CTRL_HDP_SEL"],
        SET |-> [op |-> "shl_and", pos |-> "XCAN_DEBUG_TEST_CTRL_HDP_SEL", mask |-> "XCAN_DEBUG_TEST_CTRL_HDP_SEL"],
        GET |-> [op |-> "and_shr", pos |-> "XCAN_DEBUG_TEST_CTRL_HDP_SEL", mask |-> "XCAN_DEBUG_TEST_CTRL_HDP_SEL"],
        reg |-> "XCAN_DEBUG_TEST_CTRL_Register", bitfield |-> "HDP_SEL" ]
    >>,
    flags |-> <<
      [ name |-> "XCAN_DEBUG_TEST_CTRL_TEST_IRQ_EN", lit |-> 1, shift |-> 0, bitfield |-> "TEST_IRQ_EN" ],
      [ name |-> "XCAN_DEBUG_TEST_CTRL_HDP_EN", lit |-> 1, shift |-> 2, bitfield |-> "HDP_EN" ]
    >>,
    zeros |-> << >> ]

XCAN_INT_TEST0_Register ==
  [ name |-> "XCAN_INT_TEST0_Register",
    views |-> <<
      [ view |-> "Bits", fields |-> <<
        <<"TX_FQ_IRQ", 8>>, <<"", 8>>, <<"RX_FQ_IRQ", 8>>, <<"", 8>> >> ]
    >>,
    macros |-> <<
      [ name |-> "XCAN_TX_SCAN_FQN_PQSN0_PQSN", Pos |-> 1,
        Mask |-> [lit |-> Hex(<<1, 15>>), pos |-> "XCAN_TX_SCAN_FQN_PQSN0_PQSN"],
        SET |-> [op |-> "shl_and", pos |-> "XCAN_TX_SCAN_FQN_PQSN0_PQSN", mask |-> "XCAN_TX_SCAN_FQN_PQSN0_PQSN"],
        GET |-> [op |-> "and_shr", pos |-> "XCAN_TX_SCAN_FQN_PQSN0_PQSN", mask |-> "XCAN_TX_SCAN_FQN_PQSN0_PQSN"],
        reg |-> "XCAN_INT_TEST0_Register", bitfield |-> "" ],
      [ name |-> "XCAN_TX_SCAN_FQN_PQSN1_PQSN", Pos |-> 9,
        Mask |-> [lit |-> Hex(<<1, 15>>), pos |-> "XCAN_TX_SCAN_FQN_PQSN1_PQSN"],
        SET |-> [op |-> "shl_and", pos |-> "XCAN_TX_SCAN_FQN_PQSN1_PQSN", mask |-> "XCAN_TX_SCAN_FQN_PQSN1_PQSN"],
        GET |-> [op |-> "and_shr", pos |-> "XCAN_TX_SCAN_FQN_PQSN1_PQSN", mask |-> "XCAN_TX_SCAN_FQN_PQSN1_PQSN"],
        reg |-> "XCAN_INT_TEST0_Register", bitfield |-> "" ],
      [ name |-> "XCAN_TX_SCAN_FQN_PQSN2_PQSN", Pos |-> 17,
        Mask |-> [lit |-> Hex(<<1, 15>>), pos |-> "XCAN_TX_SCAN_FQN_PQSN2_PQSN"],
        SET |-> [op |-> "shl_and", pos |-> "XCAN_TX_SCAN_FQN_PQSN2_PQSN", mask |-> "XCAN_TX_SCAN_FQN_PQSN2_PQSN"],
        GET |-> [op |-> "and_shr", pos |-> "XCAN_TX_SCAN_FQN_PQSN2_PQSN", mask |-> "XCAN_TX_SCAN_FQN_PQSN2_PQSN"],
        reg |-> "XCAN_INT_TEST0_Register", bitfield |-> "" ],
      [ name |-> "XCAN_TX_SCAN_FQN_PQSN3_PQSN", Pos |-> 25,
        Mask |-> [lit |-> Hex(<<1, 15>>), pos |-> "XCAN_TX_SCAN_FQN_PQSN3_PQSN"],
        SET |-> [op |-> "shl_and", pos |-> "XCAN_TX_SCAN_FQN_PQSN3_PQSN", mask |-> "XCAN_TX_SCAN_FQN_PQSN3_PQSN"],
        GET |-> [op |-> "and_shr", pos |-> "XCAN_TX_SCAN_FQN_PQSN3_PQSN", mask |-> "XCAN_TX_SCAN_FQN_PQSN3_PQSN"],
        reg |-> "XCAN_INT_TEST0_Register", bitfield |-> "" ]
    >>,
    flags |-> << >>,
    zeros |-> << >> ]

XCAN_INT_TEST1_Register ==
  [ name |-> "XCAN_INT_TEST1_Register",
    views |-> <<
      [ view |-> "Bits", fields |-> <<
        <<"RESP0_ERR", 1>>, <<"RESP1_ERR", 1>>, <<"DMA_TO_ERR", 1>>, <<"DMA_CH_ERR", 1>>,
        <<"DP_TO_ERR", 1>>, <<"DP_DO_ERR", 1>>, <<"DP_SEQ_ERR", 1>>, <<"DP_PARITY_ERR", 1>>,
        <<"AP_PARITY_ERR", 1>>, <<"DESC_ERR", 1>>, <<"REG_CRC_ERR", 1>>, <<"MEM_SFTY_ERR", 1>>,
        <<"MEM_TO_ERR", 1>>, <<"RX_FILTER_ERR", 1>>, <<"RX_ABORT_IRQ", 1>>, <<"TX_ABORT_IRQ", 1>>,
        <<"TX_FILTER_IRQ", 1>>, <<"RX_FILTER_IRQ", 1>>, <<"STOP_IRQ", 1>>, <<"STATS_IRQ", 1>>,
        <<"TX_PQ_IRQ", 1>>, <<"", 11>> >> ]
    >>,
    macros |-> << >>,
    flags |-> <<
      [ name |-> "XCAN_INT_TEST1_TRIGG_RESP0_ERR", lit |-> 1, shift |-> 0, bitfield |-> "RESP0_ERR" ],
      [ name |-> "XCAN_INT_TEST1_TRIGG_RESP1_ERR", lit |-> 1, shift |-> 1, bitfield |-> "RESP1_ERR" ],
      [ name |-> "XCAN_INT_TEST1_TRIGG_DMA_TO_ERR", lit |-> 1, shift |-> 2, bitfield |-> "DMA_TO_ERR" ],
      [ name |-> "XCAN_INT_TEST1_TRIGG_DMA_CH_ERR", lit |-> 1, shift |-> 3, bitfield |-> "DMA_CH_ERR" ],
      [ name |-> "XCAN_INT_TEST1_TRIGG_DP_TO_ERR", lit |-> 1, shift |-> 4, bitfield |-> "DP_TO_ERR" ],
      [ name |-> "XCAN_INT_TEST1_TRIGG_DP_DO_ERR", lit |-> 1, shift |-> 5, bitfield |-> "DP_DO_ERR" ],
      [ name |-> "XCAN_INT_TEST1_TRIGG_DP_SEQ_ERR", lit |-> 1, shift |-> 6, bitfield |-> "DP_SEQ_ERR" ],
      [ name |-> "XCAN_INT_TEST1_TRIGG_DP_PARITY_ERR", lit |-> 1, shift |-> 7, bitfield |-> "DP_PARITY_ERR" ],
      [ name |-> "XCAN_INT_TEST1_TRIGG_AP_PARITY_ERR", lit |-> 1, shift |-> 8, bitfield |-> "AP_PARITY_ERR" ],
      [ name |-> "XCAN_INT_TEST1_TRIGG_DESC_ERR", lit |-> 1, shift |-> 9, bitfield |-> "DESC_ERR" ],
      [ name |-> "XCAN_INT_TEST1_TRIGG_REG_CRC_ERR", lit |-> 1, shift |-> 10, bitfield |-> "REG_CRC_ERR" ],
      [ name |-> "XCAN_INT_TEST1_TRIGG_MEM_SFTY_ERR", lit |-> 1, shift |-> 11, bitfield |-> "MEM_SFTY_ERR" ],
      [ name |-> "XCAN_INT_TEST1_TRIGG_MEM_TO_ERR", lit |-> 1, shift |-> 12, bitfield |-> "MEM_TO_ERR" ],
      [ name |-> "XCAN_INT_TEST1_TRIGG_RX_FILTER_ERR", lit |-> 1, shift |-> 13, bitfield |-> "RX_FILTER_ERR" ],
      [ name |-> "XCAN_INT_TEST1_TRIGG_RX_ABORT_IRQ", lit |-> 1, shift |-> 14, bitfield |-> "RX_ABORT_IRQ" ],
      [ name |-> "XCAN_INT_TEST1_TRIGG_TX_ABORT_IRQ", lit |-> 1, shift |-> 15, bitfield |-> "TX_ABORT_IRQ" ],
      [ name |-> "XCAN_INT_TEST1_TRIGG_TX_FILTER_IRQ", lit |-> 1, shift |-> 16, bitfield |-> "TX_FILTER_IRQ" ],
      [ name |-> "XCAN_INT_TEST1_TRIGG_RX_FILTER_IRQ", lit |-> 1, shift |-> 17, bitfield |-> "RX_FILTER_IRQ" ],
      [ name |-> "XCAN_INT_TEST1_TRIGG_STOP_IRQ", lit |-> 1, shift |-> 18, bitfield |-> "STOP_IRQ" ],
      [ name |-> "XCAN_INT_TEST1_TRIGG_STATS_IRQ", lit |-> 1, shift |-> 19, bitfield |-> "STATS_IRQ" ],
      [ name |-> "XCAN_INT_TEST1_TRIGG_TX_PQ_IRQ", lit |-> 1, shift |-> 20, bitfield |-> "TX_PQ_IRQ" ]
    >>,
    zeros |-> << >> ]

XCAN_TX_SCAN_FC_Register ==
  [ name |-> "XCAN_TX_SCAN_FC_Register",
    views |-> <<
      [ view |-> "Bits", fields |-> <<
        <<"FQ_PQ0", 1>>, <<"FQN_PQSN0", 5>>, <<"", 2>>, <<"FQ_PQ1", 1>>, <<"FQN_PQSN1", 5>>,
        <<"", 2>>, <<"FQ_PQ2", 1>>, <<"FQN_PQSN2", 5>>, <<"", 2>>, <<"FQ_PQ3", 1>>,
        <<"FQN_PQSN3", 5>>, <<"", 2>> >> ]
    >>,
    macros |-> << >>,
    flags |-> <<
      [ name |-> "XCAN_TX_SCAN_FC_FQ_PQ0_TX_PRIORITY_QUEUE", lit |-> 1, shift |-> 0, bitfield |-> "FQ_PQ0" ],
      [ name |-> "XCAN_TX_SCAN_FC_FQ_PQ1_TX_PRIORITY_QUEUE", lit |-> 1, shift |-> 8, bitfield |-> "FQ_PQ1" ],
      [ name |-> "XCAN_TX_SCAN_FC_FQ_PQ2_TX_PRIORITY_QUEUE", lit |-> 1, shift |-> 16, bitfield |-> "FQ_PQ2" ],
      [ name |-> "XCAN_TX_SCAN_FC_FQ_PQ3_TX_PRIORITY_QUEUE", lit |-> 1, shift |-> 24, bitfield |-> "FQ_PQ3" ]
    >>,
    zeros |-> <<
      [ name |-> "XCAN_TX_SCAN_FC_FQ_PQ0_TX_FIFO_QUEUE", lit |-> 0, shift |-> 0, bitfield |-> "FQ_PQ0" ],
      [ name |-> "XCAN_TX_SCAN_FC_FQ_PQ1_TX_FIFO_QUEUE", lit |-> 0, shift |-> 8, bitfield |-> "FQ_PQ1" ],
      [ name |-> "XCAN_TX_SCAN_FC_FQ_PQ2_TX_FIFO_QUEUE", lit |-> 0, shift |-> 16, bitfield |-> "FQ_PQ2" ],
      [ name |-> "XCAN_TX_SCAN_FC_FQ_PQ3_TX_FIFO_QUEUE", lit |-> 0, shift |-> 24, bitfield |-> "FQ_PQ3" ]
    >> ]

XCAN_TX_SCAN_BC_Register ==
  [ name |-> "XCAN_TX_SCAN_BC_Register",
    views |-> <<
      [ view |-> "Bits", fields |-> <<
        <<"FH_PQ", 1>>, <<"FH_FQN_PQSN", 5>>, <<"FH_OFFSET", 10>>, <<"SH_PQ", 1>>,
        <<"SH_FQN_PQSN", 5>>, <<"SH_OFFSET", 10>> >> ]
    >>,
    macros |-> <<
      [ name |-> "XCAN_TX_SCAN_BC_FH_FQN_PQSN", Pos |-> 1,
        Mask |-> [lit |-> Hex(<<1, 15>>), pos |-> "XCAN_TX_SCAN_BC_FH_FQN_PQSN"],
        SET |-> [op |-> "none", pos |-> "", mask |-> ""],
        GET |-> [op |-> "and_shr", pos |-> "XCAN_TX_SCAN_BC_FH_FQN_PQSN", mask |-> "XCAN_TX_SCAN_BC_FH_FQN_PQSN"],
        reg |-> "XCAN_TX_SCAN_BC_Register", bitfield |-> "FH_FQN_PQSN" ],
      [ name |-> "XCAN_TX_SCAN_BC_FH_OFFSET", Pos |-> 6,
        Mask |-> [lit |-> Hex(<<3, 15, 15>>), pos |-> "XCAN_TX_SCAN_BC_FH_OFFSET"],
        SET |-> [op |-> "none", pos |-> "", mask |-> ""],
        GET |-> [op |-> "and_shr", pos |-> "XCAN_TX_SCAN_BC_FH_OFFSET", mask |-> "XCAN_TX_SCAN_BC_FH_OFFSET"],
        reg |-> "XCAN_TX_SCAN_BC_Register", bitfield |-> "FH_OFFSET" ],
      [ name |-> "XCAN_TX_SCAN_BC_SH_FQN_PQSN", Pos |-> 17,
        Mask |-> [lit |-> Hex(<<1, 15>>), pos |-> "XCAN_TX_SCAN_BC_SH_FQN_PQSN"],
        SET |-> [op |-> "none", pos |-> "", mask |-> ""],
        GET |-> [op |-> "and_shr", pos |-> "XCAN_TX_SCAN_BC_SH_FQN_PQSN", mask |-> "XCAN_TX_SCAN_BC_SH_FQN_PQSN"],
        reg |-> "XCAN_TX_SCAN_BC_Register", bitfield |-> "SH_FQN_PQSN" ],
      [ name |-> "XCAN_TX_SCAN_BC_SH_OFFSET", Pos |-> 22,
        Mask |-> [lit |-> Hex(<<3, 15, 15>>), pos |-> "XCAN_TX_SCAN_BC_SH_OFFSET"],
        SET |-> [op |-> "none", pos |-> "", mask |-> ""],
        GET |-> [op |-> "and_shr", pos |-> "XCAN_TX_SCAN_BC_SH_OFFSET", mask |-> "XCAN_TX_SCAN_BC_SH_OFFSET"],
        reg |-> "XCAN_TX_SCAN_BC_Register", bitfield |-> "SH_OFFSET" ]
    >>,
    flags |-> <<
      [ name |-> "XCAN_TX_SCAN_BC_FH_PQ_TX_PRIORITY_QUEUE", lit |-> 1, shift |-> 0, bitfield |-> "FH_PQ" ],
      [ name |-> "XCAN_TX_SCAN_BC_SH_PQ_TX_PRIORITY_QUEUE", lit |-> 1, shift |-> 16, bitfield |-> "SH_PQ" ],
      [ name |-> "XCAN_TX_SCAN_BC_SH_PQ_TX_FIFO_QUEUE", lit |-> 1, shift |-> 16, bitfield |-> "SH_PQ" ]
    >>,
    zeros |-> <<
      [ name |-> "XCAN_TX_SCAN_BC_FH_PQ_TX_FIFO_QUEUE", lit |-> 0, shift |-> 0, bitfield |-> "FH_PQ" ]
    >> ]

XCAN_TX_FQ_DESC_VALID_Register ==
  [ name |-> "XCAN_TX_FQ_DESC_VALID_Register",
    views |-> <<
      [ view |-> "Bits", fields |-> <<
        <<"DESC_CN_VALID", 8>>, <<"", 8>>, <<"DESC_NC_VALID", 8>>, <<"", 8>> >> ]
    >>,
    macros |-> <<
      [ name |-> "XCAN_TX_FQ_DESC_CN_VALID", Pos |-> 0,
        Mask |-> [lit |-> Hex(<<15, 15>>), pos |-> "XCAN_TX_FQ_DESC_CN_VALID"],
        SET |-> [op |-> "none", pos |-> "", mask |-> ""],
        GET |-> [op |-> "and_shr", pos |-> "XCAN_TX_FQ_DESC_CN_VALID", mask |-> "XCAN_TX_FQ_DESC_CN_VALID"],
        reg |-> "XCAN_TX_FQ_DESC_VALID_Register", bitfield |-> "DESC_CN_VALID" ],
      [ name |-> "XCAN_TX_FQ_DESC_NC_VALID", Pos |-> 16,
        Mask |-> [lit |-> Hex(<<15, 15>>), pos |-> "XCAN_TX_FQ_DESC_NC_VALID"],
        SET |-> [op |-> "none", pos |-> "", mask |-> ""],
        GET |-> [op |-> "and_shr", pos |-> "XCAN_TX_FQ_DESC_NC_VALID", mask |-> "XCAN_TX_FQ_DESC_NC_VALID"],
        reg |-> "XCAN_TX_FQ_DESC_VALID_Register", bitfield |-> "DESC_NC_VALID" ]
    >>,
    flags |-> << >>,
    zeros |-> << >> ]

XCAN_TX_PQ_DESC_VALID_Register ==
  [ name |-> "XCAN_TX_PQ_DESC_VALID_Register",
    views |-> << >>,
    macros |-> <<
      [ name |-> "XCAN_TX_PQ_DESC_VALID", Pos |-> 0,
        Mask |-> [lit |-> Hex(<<15, 15, 15, 15, 15, 15, 15, 15>>), pos |-> "XCAN_TX_PQ_DESC_VALID"],
        SET |-> [op |-> "none", pos |-> "", mask |-> ""],
        GET |-> [op |-> "and_shr", pos |-> "XCAN_TX_PQ_DESC_VALID", mask |-> "XCAN_TX_PQ_DESC_VALID"],
        reg |-> "XCAN_TX_PQ_DESC_VALID_Register", bitfield |-> "" ]
    >>,
    flags |-> << >>,
    zeros |-> << >> ]

XCAN_CRC_CTRL_Register ==
  [ name |-> "XCAN_CRC_CTRL_Register",
    views |-> <<
      [ view |-> "Bits", fields |-> <<
        <<"START", 1>>, <<"", 31>> >> ]
    >>,
    macros |-> << >>,
    flags |-> << >>,
    zeros |-> << >> ]

XCAN_CRC_REG_Register ==
  [ name |-> "XCAN_CRC_REG_Register",
    views |-> << >>,
    macros |-> <<
      [ name |-> "XCAN_CRC_REG_VAL", Pos |-> 0,
        Mask |-> [lit |-> Hex(<<15, 15, 15, 15, 15, 15, 15, 15>>), pos |-> "XCAN_CRC_REG_VAL"],
        SET |-> [op |-> "shl_and", pos |-> "XCAN_CRC_REG_VAL", mask |-> "XCAN_CRC_REG_VAL"],
        GET |-> [op |-> "and_shr", pos |-> "XCAN_CRC_REG_VAL", mask |-> "XCAN_CRC_REG_VAL"],
        reg |-> "XCAN_CRC_REG_Register", bitfield |-> "" ]
    >>,
    flags |-> << >>,
    zeros |-> << >> ]

XCAN_PC_PREL_Register ==
  [ name |-> "XCAN_PC_PREL_Register",
    views |-> <<
      [ view |-> "Bits", fields |-> <<
        <<"DAY", 8>>, <<"MON", 8>>, <<"YEAR", 4>>, <<"SUBSTEP", 4>>, <<"STEP", 4>>, <<"REL", 4>> >> ]
    >>,
    macros |-> <<
      [ name |-> "XCAN_PC_PREL_DAY", Pos |-> 0,
        Mask |-> [lit |-> Hex(<<15, 15>>), pos |-> "XCAN_PC_PREL_DAY"],
        SET |-> [op |-> "none", pos |-> "", mask |-> ""],
        GET |-> [op |-> "dcb_and_shr", pos |-> "XCAN_PC_PREL_DAY", mask |-> "XCAN_PC_PREL_DAY"],
        reg |-> "XCAN_PC_PREL_Register", bitfield |-> "DAY" ],
      [ name |-> "XCAN_PC_PREL_MON", Pos |-> 8,
        Mask |-> [lit |-> Hex(<<15, 15>>), pos |-> "XCAN_PC_PREL_MON"],
        SET |-> [op |-> "none", pos |-> "", mask |-> ""],
        GET |-> [op |-> "dcb_and_shr", pos |-> "XCAN_PC_PREL_MON", mask |-> "XCAN_PC_PREL_MON"],
        reg |-> "XCAN_PC_PREL_Register", bitfield |-> "MON" ],
      [ name |-> "XCAN_PC_PREL_YEAR", Pos |-> 16,
        Mask |-> [lit |-> Hex(<<15>>), pos |-> "XCAN_PC_PREL_YEAR"],
        SET |-> [op |-> "none", pos |-> "", mask |-> ""],
        GET |-> [op |-> "dcb_and_shr", pos |-> "XCAN_PC_PREL_YEAR", mask |-> "XCAN_PC_PREL_YEAR"],
        reg |-> "XCAN_PC_PREL_Register", bitfield |-> "YEAR" ],
      [ name |-> "XCAN_PC_PREL_SUBSTEP", Pos |-> 20,
        Mask |-> [lit |-> Hex(<<15>>), pos |-> "XCAN_PC_PREL_SUBSTEP"],
        SET |-> [op |-> "none", pos |-> "", mask |-> ""],
        GET |-> [op |-> "dcb_and_shr", pos |-> "XCAN_PC_PREL_SUBSTEP", mask |-> "XCAN_PC_PREL_SUBSTEP"],
        reg |-> "XCAN_PC_PREL_Register", bitfield |-> "SUBSTEP" ],
      [ name |-> "XCAN_PC_PREL_STEP", Pos |-> 24,
        Mask |-> [lit |-> Hex(<<15>>), pos |-> "XCAN_PC_PREL_STEP"],
        SET |-> [op |-> "none", pos |-> "", mask |-> ""],
        GET |-> [op |-> "dcb_and_shr", pos |-> "XCAN_PC_PREL_STEP", mask |-> "XCAN_PC_PREL_STEP"],
        reg |-> "XCAN_PC_PREL_Register", bitfield |-> "STEP" ],
      [ name |-> "XCAN_PC_PREL_REL", Pos |-> 28,
        Mask |-> [lit |-> Hex(<<15>>), pos |-> "XCAN_PC_PREL_REL"],
        SET |-> [op |-> "none", pos |-> "", mask |-> ""],
        GET |-> [op |-> "dcb_and_shr", pos |-> "XCAN_PC_PREL_REL", mask |-> "XCAN_PC_PREL_REL"],
        reg |-> "XCAN_PC_PREL_Register", bitfield |-> "REL" ]
    >>,
    flags |-> << >>,
    zeros |-> << >> ]

XCAN_PC_STAT_Register ==
  [ name |-> "XCAN_PC_STAT_Register",
    views |-> <<
      [ view |-> "Bits", fields |-> <<
        <<"ACT", 2>>, <<"INT", 1>>, <<"STP", 1>>, <<"CLKA", 1>>, <<"FIMA", 1>>, <<"EP", 1>>,
        <<"BO", 1>>, <<"TDCV", 8>>, <<"REC", 7>>, <<"RP", 1>>, <<"TEC", 8>> >> ]
    >>,
    macros |-> <<
      [ name |-> "XCAN_PC_STAT_ACT", Pos |-> 0,
        Mask |-> [lit |-> Hex(<<3>>), pos |-> "XCAN_PC_STAT_ACT"],
        SET |-> [op |-> "none", pos |-> "", mask |-> ""],
        GET |-> [op |-> "and_shr", pos |-> "XCAN_PC_STAT_ACT", mask |-> "XCAN_PC_STAT_ACT"],
        reg |-> "XCAN_PC_STAT_Register", bitfield |-> "ACT" ],
      [ name |-> "XCAN_PC_STAT_TDCV", Pos |-> 8,
        Mask |-> [lit |-> Hex(<<15, 15>>), pos |-> "XCAN_PC_STAT_TDCV"],
        SET |-> [op |-> "none", pos |-> "", mask |-> ""],
        GET |-> [op |-> "and_shr", pos |-> "XCAN_PC_STAT_TDCV", mask |-> "XCAN_PC_STAT_TDCV"],
        reg |-> "XCAN_PC_STAT_Register", bitfield |-> "TDCV" ],
      [ name |-> "XCAN_PC_STAT_REC", Pos |-> 16,
        Mask |-> [lit |-> Hex(<<7, 15>>), pos |-> "XCAN_PC_STAT_REC"],
        SET |-> [op |-> "none", pos |-> "", mask |-> ""],
        GET |-> [op |-> "and_shr", pos |-> "XCAN_PC_STAT_REC", mask |-> "XCAN_PC_STAT_REC"],
        reg |-> "XCAN_PC_STAT_Register", bitfield |-> "REC" ],
      [ name |-> "XCAN_PC_STAT_TEC", Pos |-> 24,
        Mask |-> [lit |-> Hex(<<15, 15>>), pos |-> "XCAN_PC_STAT_TEC"],
        SET |-> [op |-> "none", pos |-> "", mask |-> ""],
        GET |-> [op |-> "and_shr", pos |-> "XCAN_PC_STAT_TEC", mask |-> "XCAN_PC_STAT_TEC"],
        reg |-> "XCAN_PC_STAT_Register", bitfield |-> "TEC" ]
    >>,
    flags |-> <<
      [ name |-> "XCAN_PC_STAT_INT", lit |-> 1, shift |-> 2, bitfield |-> "INT" ],
      [ name |-> "XCAN_PC_STAT_STP", lit |-> 1, shift |-> 3, bitfield |-> "STP" ],
      [ name |-> "XCAN_PC_STAT_CLKA_HIGH", lit |-> 1, shift |-> 4, bitfield |-> "CLKA" ],
      [ name |-> "XCAN_PC_STAT_FIMA", lit |-> 1, shift |-> 5, bitfield |-> "FIMA" ],
      [ name |-> "XCAN_PC_STAT_EP", lit |-> 1, shift |-> 6, bitfield |-> "EP" ],
      [ name |-> "XCAN_PC_STAT_BO", lit |-> 1, shift |-> 7, bitfield |-> "BO" ],
      [ name |-> "XCAN_PC_STAT_RP", lit |-> 1, shift |-> 23, bitfield |-> "RP" ]
    >>,
    zeros |-> <<
      [ name |-> "XCAN_PC_STAT_CLKA_LOW", lit |-> 0, shift |-> 4, bitfield |-> "CLKA" ]
    >> ]

XCAN_PC_EVNT_Register ==
  [ name |-> "XCAN_PC_EVNT_Register",
    views |-> <<
      [ view |-> "Bits", fields |-> <<
        <<"CRE", 1>>, <<"B0E", 1>>, <<"B1E", 1>>, <<"AKE", 1>>, <<"FRE", 1>>, <<"STE", 1>>,
        <<"DO", 1>>, <<"RXF", 1>>, <<"TXF", 1>>, <<"PXE", 1>>, <<"DU", 1>>, <<"USO", 1>>,
        <<"IFR", 1>>, <<"ABO", 1>>, <<"", 18>> >> ]
    >>,
    macros |-> << >>,
    flags |-> <<
      [ name |-> "XCAN_PC_EVNT_CRE", lit |-> 1, shift |-> 0, bitfield |-> "CRE" ],
      [ name |-> "XCAN_PC_EVNT_B0E", lit |-> 1, shift |-> 1, bitfield |-> "B0E" ],
      [ name |-> "XCAN_PC_EVNT_B1E", lit |-> 1, shift |-> 2, bitfield |-> "B1E" ],
      [ name |-> "XCAN_PC_EVNT_AKE", lit |-> 1, shift |-> 3, bitfield |-> "AKE" ],
      [ name |-> "XCAN_PC_EVNT_FRE", lit |-> 1, shift |-> 4, bitfield |-> "FRE" ],
      [ name |-> "XCAN_PC_EVNT_STE", lit |-> 1, shift |-> 5, bitfield |-> "STE" ],
      [ name |-> "XCAN_PC_EVNT_DO", lit |-> 1, shift |-> 6, bitfield |-> "DO" ],
      [ name |-> "XCAN_PC_EVNT_RXF", lit |-> 1, shift |-> 7, bitfield |-> "RXF" ],
      [ name |-> "XCAN_PC_EVNT_TXF", lit |-> 1, shift |-> 8, bitfield |-> "TXF" ],
      [ name |-> "XCAN_PC_EVNT_PXE", lit |-> 1, shift |-> 9, bitfield |-> "PXE" ],
      [ name |-> "XCAN_PC_EVNT_DU", lit |-> 1, shift |-> 10, bitfield |-> "DU" ],
      [ name |-> "XCAN_PC_EVNT_USO", lit |-> 1, shift |-> 11, bitfield |-> "USO" ],
      [ name |-> "XCAN_PC_EVNT_IFR", lit |-> 1, shift |-> 12, bitfield |-> "IFR" ],
      [ name |-> "XCAN_PC_EVNT_ABO", lit |-> 1, shift |-> 13, bitfield |-> "ABO" ]
    >>,
    zeros |-> << >> ]

XCAN_IC_LOCK_Register ==
  [ name |-> "XCAN_IC_LOCK_Register",
    views |-> <<
      [ view |-> "Bits", fields |-> <<
        <<"ULK", 16>>, <<"TMK", 16>> >> ]
    >>,
    macros |-> <<
      [ name |-> "XCAN_IC_LOCK_ULK", Pos |-> 0,
        Mask |-> [lit |-> Hex(<<15, 15, 15, 15>>), pos |-> "XCAN_IC_LOCK_ULK"],
        SET |-> [op |-> "shl_and", pos |-> "XCAN_IC_LOCK_ULK", mask |-> "XCAN_IC_LOCK_ULK"],
        GET |-> [op |-> "none", pos |-> "", mask |-> ""],
        reg |-> "XCAN_IC_LOCK_Register", bitfield |-> "ULK" ],
      [ name |-> "XCAN_IC_LOCK_TMK", Pos |-> 16,
        Mask |-> [lit |-> Hex(<<15, 15, 15, 15>>), pos |-> "XCAN_IC_LOCK_TMK"],
        SET |-> [op |-> "shl_and", pos |-> "XCAN_IC_LOCK_TMK", mask |-> "XCAN_IC_LOCK_TMK"],
        GET |-> [op |-> "none", pos |-> "", mask |-> ""],
        reg |-> "XCAN_IC_LOCK_Register", bitfield |-> "TMK" ]
    >>,
    flags |-> << >>,
    zeros |-> << >> ]

XCAN_IC_CTRL_Register ==
  [ name |-> "XCAN_IC_CTRL_Register",
    views |-> <<
      [ view |-> "Bits", fields |-> <<
        <<"STOP", 1>>, <<"IMMD", 1>>, <<"", 2>>, <<"STRT", 1>>, <<"", 3>>, <<"SRES", 1>>, <<"", 3>>,
        <<"TEST", 1>>, <<"", 19>> >> ]
    >>,
    macros |-> << >>,
    flags |-> <<
      [ name |-> "XCAN_PC_CTRL_STOP_CAN_OPERATION", lit |-> 1, shift |-> 0, bitfield |-> "STOP" ],
      [ name |-> "XCAN_PC_CTRL_TEST_MODE_ENABLE", lit |-> 1, shift |-> 12, bitfield |-> "TEST" ]
    >>,
    zeros |-> << >> ]

XCAN_IC_FIMC_Register ==
  [ name |-> "XCAN_IC_FIMC_Register",
    views |-> <<
      [ view |-> "Bits", fields |-> <<
        <<"FIP", 15>>, <<"", 17>> >> ]
    >>,
    macros |-> <<
      [ name |-> "XCAN_IC_FIMC_FIP", Pos |-> 0,
        Mask |-> [lit |-> Hex(<<7, 15>>), pos |-> "XCAN_IC_FIMC_FIP"],
        SET |-> [op |-> "shl_and", pos |-> "XCAN_IC_FIMC_FIP", mask |-> "XCAN_IC_FIMC_FIP"],
        GET |-> [op |-> "and_shr", pos |-> "XCAN_IC_FIMC_FIP", mask |-> "XCAN_IC_FIMC_FIP"],
        reg |-> "XCAN_IC_FIMC_Register", bitfield |-> "FIP" ]
    >>,
    flags |-> << >>,
    zeros |-> << >> ]

XCAN_PC_TEST_Register ==
  [ name |-> "XCAN_PC_TEST_Register",
    views |-> <<
      [ view |-> "Bits", fields |-> <<
        <<"LBCK", 1>>, <<"", 2>>, <<"RXD", 1>>, <<"TXC", 2>>, <<"", 9>>, <<"HWT", 1>>,
        <<"ABORTED", 1>>, <<"USOS", 1>>, <<"TX_DU", 1>>, <<"RX_DO", 1>>, <<"IFF_RQ", 1>>,
        <<"TX_EVT", 1>>, <<"RX_EVT", 1>>, <<"BUS_ERR", 1>>, <<"E_ACTIVE", 1>>, <<"E_PASSIVE", 1>>,
        <<"BUS_ON", 1>>, <<"BUS_OFF", 1>>, <<"", 4>> >> ]
    >>,
    macros |-> <<
      [ name |-> "XCAN_PC_TEST_RX", Pos |-> 3,
        Mask |-> [lit |-> Hex(<<1>>), pos |-> "XCAN_PC_TEST_RX"],
        SET |-> [op |-> "none", pos |-> "", mask |-> ""],
        GET |-> [op |-> "and_shr", pos |-> "XCAN_PC_TEST_RX", mask |-> "XCAN_PC_TEST_RX"],
        reg |-> "XCAN_PC_TEST_Register", bitfield |-> "" ],
      [ name |-> "XCAN_PC_TEST_TXC", Pos |-> 4,
        Mask |-> [lit |-> Hex(<<3>>), pos |-> "XCAN_PC_TEST_TXC"],
        SET |-> [op |-> "shl_and", pos |-> "XCAN_PC_TEST_TXC", mask |-> "XCAN_PC_TEST_TXC"],
        GET |-> [op |-> "and_shr", pos |-> "XCAN_PC_TEST_TXC", mask |-> "XCAN_PC_TEST_TXC"],
        reg |-> "XCAN_PC_TEST_Register", bitfield |-> "TXC" ]
    >>,
    flags |-> <<
      [ name |-> "XCAN_PC_TEST_RX_RECESSIVE", lit |-> 1, shift |-> 7, bitfield |-> "RXD" ],
      [ name |-> "XCAN_PC_TEST_TRIGGER_ABORTED_INT_LINE", lit |-> 1, shift |-> 16, bitfield |-> "ABORTED" ],
      [ name |-> "XCAN_PC_TEST_TRIGGER_USOS_INT_LINE", lit |-> 1, shift |-> 17, bitfield |-> "USOS" ],
      [ name |-> "XCAN_PC_TEST_TRIGGER_TX_DU_INT_LINE", lit |-> 1, shift |-> 18, bitfield |-> "TX_DU" ],
      [ name |-> "XCAN_PC_TEST_TRIGGER_RX_DO_INT_LINE", lit |-> 1, shift |-> 19, bitfield |-> "RX_DO" ],
      [ name |-> "XCAN_PC_TEST_TRIGGER_IFF_RQ_INT_LINE", lit |-> 1, shift |-> 20, bitfield |-> "IFF_RQ" ],
      [ name |-> "XCAN_PC_TEST_TRIGGER_TX_EVT_INT_LINE", lit |-> 1, shift |-> 21, bitfield |-> "TX_EVT" ],
      [ name |-> "XCAN_PC_TEST_TRIGGER_RX_EVT_INT_LINE", lit |-> 1, shift |-> 22, bitfield |-> "RX_EVT" ],
      [ name |-> "XCAN_PC_TEST_TRIGGER_BUS_ERR_INT_LINE", lit |-> 1, shift |-> 23, bitfield |-> "BUS_ERR" ],
      [ name |-> "XCAN_PC_TEST_TRIGGER_E_ACTIVE_INT_LINE", lit |-> 1, shift |-> 24, bitfield |-> "E_ACTIVE" ],
      [ name |-> "XCAN_PC_TEST_TRIGGER_E_PASSIVE_INT_LINE", lit |-> 1, shift |-> 25, bitfield |-> "E_PASSIVE" ],
      [ name |-> "XCAN_PC_TEST_TRIGGER_BUS_ON_INT_LINE", lit |-> 1, shift |-> 26, bitfield |-> "BUS_ON" ],
      [ name |-> "XCAN_PC_TEST_TRIGGER_BUS_OFF_INT_LINE", lit |-> 1, shift |-> 27, bitfield |-> "BUS_OFF" ]
    >>,
    zeros |-> << >> ]

XCAN_PC_MODE_Register ==
  [ name |-> "XCAN_PC_MODE_Register",
    views |-> <<
      [ view |-> "Bits", fields |-> <<
        <<"FDOE", 1>>, <<"XLOE", 1>>, <<"TDCE", 1>>, <<"PXHD", 1>>, <<"EFBI", 1>>, <<"TXP", 1>>,
        <<"MON", 1>>, <<"RSTR", 1>>, <<"SFS", 1>>, <<"XLTR", 1>>, <<"EFDI", 1>>, <<"FIME", 1>>,
        <<"", 20>> >> ]
    >>,
    macros |-> << >>,
    flags |-> << >>,
    zeros |-> << >> ]

XCAN_PC_NBTP_Register ==
  [ name |-> "XCAN_PC_NBTP_Register",
    views |-> <<
      [ view |-> "Bits", fields |-> <<
        <<"NSJW", 7>>, <<"", 1>>, <<"NTSEG2", 7>>, <<"", 1>>, <<"NTSEG1", 9>>, <<"BRP", 5>>,
        <<"", 2>> >> ]
    >>,
    macros |-> <<
      [ name |-> "XCAN_PC_NBTP_NSJW", Pos |-> 0,
        Mask |-> [lit |-> Hex(<<7, 15>>), pos |-> "XCAN_PC_NBTP_NSJW"],
        SET |-> [op |-> "shl_and", pos |-> "XCAN_PC_NBTP_NSJW", mask |-> "XCAN_PC_NBTP_NSJW"],
        GET |-> [op |-> "and_shr", pos |-> "XCAN_PC_NBTP_NSJW", mask |-> "XCAN_PC_NBTP_NSJW"],
        reg |-> "XCAN_PC_NBTP_Register", bitfield |-> "NSJW" ],
      [ name |-> "XCAN_PC_NBTP_NTSEG2", Pos |-> 8,
        Mask |-> [lit |-> Hex(<<7, 15>>), pos |-> "XCAN_PC_NBTP_NTSEG2"],
        SET |-> [op |-> "shl_and", pos |-> "XCAN_PC_NBTP_NTSEG2", mask |-> "XCAN_PC_NBTP_NTSEG2"],
        GET |-> [op |-> "and_shr", pos |-> "XCAN_PC_NBTP_NTSEG2", mask |-> "XCAN_PC_NBTP_NTSEG2"],
        reg |-> "XCAN_PC_NBTP_Register", bitfield |-> "NTSEG2" ],
      [ name |-> "XCAN_PC_NBTP_NTSEG1", Pos |-> 16,
        Mask |-> [lit |-> Hex(<<1, 15, 15>>), pos |-> "XCAN_PC_NBTP_NTSEG1"],
        SET |-> [op |-> "shl_and", pos |-> "XCAN_PC_NBTP_NTSEG1", mask |-> "XCAN_PC_NBTP_NTSEG1"],
        GET |-> [op |-> "and_shr", pos |-> "XCAN_PC_NBTP_NTSEG1", mask |-> "XCAN_PC_NBTP_NTSEG1"],
        reg |-> "XCAN_PC_NBTP_Register", bitfield |-> "NTSEG1" ],
      [ name |-> "XCAN_PC_NBTP_BRP", Pos |-> 25,
        Mask |-> [lit |-> Hex(<<1, 15>>), pos |-> "XCAN_PC_NBTP_BRP"],
        SET |-> [op |-> "shl_and", pos |-> "XCAN_PC_NBTP_BRP", mask |-> "XCAN_PC_NBTP_BRP"],
        GET |-> [op |-> "and_shr", pos |-> "XCAN_PC_NBTP_BRP", mask |-> "XCAN_PC_NBTP_BRP"],
        reg |-> "XCAN_PC_NBTP_Register", bitfield |-> "BRP" ]
    >>,
    flags |-> << >>,
    zeros |-> << >> ]

XCAN_PC_DBTP_Register ==
  [ name |-> "XCAN_PC_DBTP_Register",
    views |-> <<
      [ view |-> "Bits", fields |-> <<
        <<"DSJW", 7>>, <<"", 1>>, <<"DTSEG2", 7>>, <<"", 1>>, <<"DTSEG1", 8>>, <<"DTDCO", 8>> >> ]
    >>,
    macros |-> <<
      [ name |-> "XCAN_PC_DBTP_DSJW", Pos |-> 0,
        Mask |-> [lit |-> Hex(<<7, 15>>), pos |-> "XCAN_PC_DBTP_DSJW"],
        SET |-> [op |-> "shl_and", pos |-> "XCAN_PC_DBTP_DSJW", mask |-> "XCAN_PC_DBTP_DSJW"],
        GET |-> [op |-> "and_shr", pos |-> "XCAN_PC_DBTP_DSJW", mask |-> "XCAN_PC_DBTP_DSJW"],
        reg |-> "XCAN_PC_DBTP_Register", bitfield |-> "DSJW" ],
      [ name |-> "XCAN_PC_DBTP_DTSEG2", Pos |-> 8,
        Mask |-> [lit |-> Hex(<<7, 15>>), pos |-> "XCAN_PC_DBTP_DTSEG2"],
        SET |-> [op |-> "shl_and", pos |-> "XCAN_PC_DBTP_DTSEG2", mask |-> "XCAN_PC_DBTP_DTSEG2"],
        GET |-> [op |-> "and_shr", pos |-> "XCAN_PC_DBTP_DTSEG2", mask |-> "XCAN_PC_DBTP_DTSEG2"],
        reg |-> "XCAN_PC_DBTP_Register", bitfield |-> "DTSEG2" ],
      [ name |-> "XCAN_PC_DBTP_DTSEG1", Pos |-> 16,
        Mask |-> [lit |-> Hex(<<15, 15>>), pos |-> "XCAN_PC_DBTP_DTSEG1"],
        SET |-> [op |-> "shl_and", pos |-> "XCAN_PC_DBTP_DTSEG1", mask |-> "XCAN_PC_DBTP_DTSEG1"],
        GET |-> [op |-> "and_shr", pos |-> "XCAN_PC_DBTP_DTSEG1", mask |-> "XCAN_PC_DBTP_DTSEG1"],
        reg |-> "XCAN_PC_DBTP_Register", bitfield |-> "DTSEG1" ],
      [ name |-> "XCAN_PC_DBTP_DTDCO", Pos |-> 24,
        Mask |-> [lit |-> Hex(<<15, 15>>), pos |-> "XCAN_PC_DBTP_DTDCO"],
        SET |-> [op |-> "shl_and", pos |-> "XCAN_PC_DBTP_DTDCO", mask |-> "XCAN_PC_DBTP_DTDCO"],
        GET |-> [op |-> "and_shr", pos |-> "XCAN_PC_DBTP_DTDCO", mask |-> "XCAN_PC_DBTP_DTDCO"],
        reg |-> "XCAN_PC_DBTP_Register", bitfield |-> "DTDCO" ]
    >>,
    flags |-> << >>,
    zeros |-> << >> ]

XCAN_PC_XBTP_Register ==
  [ name |-> "XCAN_PC_XBTP_Register",
    views |-> <<
      [ view |-> "Bits", fields |-> <<
        <<"XSJW", 7>>, <<"", 1>>, <<"XTSEG2", 7>>, <<"", 1>>, <<"XTSEG1", 8>>, <<"XTDCO", 8>> >> ]
    >>,
    macros |-> <<
      [ name |-> "XCAN_PC_XBTP_XSJW", Pos |-> 0,
        Mask |-> [lit |-> Hex(<<7, 15>>), pos |-> "XCAN_PC_XBTP_XSJW"],
        SET |-> [op |-> "shl_and", pos |-> "XCAN_PC_XBTP_XSJW", mask |-> "XCAN_PC_XBTP_XSJW"],
        GET |-> [op |-> "and_shr", pos |-> "XCAN_PC_XBTP_XSJW", mask |-> "XCAN_PC_XBTP_XSJW"],
        reg |-> "XCAN_PC_XBTP_Register", bitfield |-> "XSJW" ],
      [ name |-> "XCAN_PC_XBTP_XTSEG2", Pos |-> 8,
        Mask |-> [lit |-> Hex(<<7, 15>>), pos |-> "XCAN_PC_XBTP_XTSEG2"],
        SET |-> [op |-> "shl_and", pos |-> "XCAN_PC_XBTP_XTSEG2", mask |-> "XCAN_PC_XBTP_XTSEG2"],
        GET |-> [op |-> "and_shr", pos |-> "XCAN_PC_XBTP_XTSEG2", mask |-> "XCAN_PC_XBTP_XTSEG2"],
        reg |-> "XCAN_PC_XBTP_Register", bitfield |-> "XTSEG2" ],
      [ name |-> "XCAN_PC_XBTP_XTSEG1", Pos |-> 16,
        Mask |-> [lit |-> Hex(<<15, 15>>), pos |-> "XCAN_PC_XBTP_XTSEG1"],
        SET |-> [op |-> "shl_and", pos |-> "XCAN_PC_XBTP_XTSEG1", mask |-> "XCAN_PC_XBTP_XTSEG1"],
        GET |-> [op |-> "and_shr", pos |-> "XCAN_PC_XBTP_XTSEG1", mask |-> "XCAN_PC_XBTP_XTSEG1"],
        reg |-> "XCAN_PC_XBTP_Register", bitfield |-> "XTSEG1" ],
      [ name |-> "XCAN_PC_XBTP_XTDCO", Pos |-> 24,
        Mask |-> [lit |-> Hex(<<15, 15>>), pos |-> "XCAN_PC_XBTP_XTDCO"],
        SET |-> [op |-> "shl_and", pos |-> "XCAN_PC_XBTP_XTDCO", mask |-> "XCAN_PC_XBTP_XTDCO"],
        GET |-> [op |-> "and_shr", pos |-> "XCAN_PC_XBTP_XTDCO", mask |-> "XCAN_PC_XBTP_XTDCO"],
        reg |-> "XCAN_PC_XBTP_Register", bitfield |-> "XTDCO" ]
    >>,
    flags |-> << >>,
    zeros |-> << >> ]

XCAN_PC_PCFG_Register ==
  [ name |-> "XCAN_PC_PCFG_Register",
    views |-> <<
      [ view |-> "Bits", fields |-> <<
        <<"PWMS", 6>>, <<"", 2>>, <<"PWML", 6>>, <<"", 2>>, <<"PWMO", 6>>, <<"", 10>> >> ]
    >>,
    macros |-> <<
      [ name |-> "XCAN_PC_PCFG_PWMS", Pos |-> 0,
        Mask |-> [lit |-> Hex(<<3, 15>>), pos |-> "XCAN_PC_PCFG_PWMS"],
        SET |-> [op |-> "shl_and", pos |-> "XCAN_PC_PCFG_PWMS", mask |-> "XCAN_PC_PCFG_PWMS"],
        GET |-> [op |-> "and_shr", pos |-> "XCAN_PC_PCFG_PWMS", mask |-> "XCAN_PC_PCFG_PWMS"],
        reg |-> "XCAN_PC_PCFG_Register", bitfield |-> "PWMS" ],
      [ name |-> "XCAN_PC_PCFG_PWML", Pos |-> 8,
        Mask |-> [lit |-> Hex(<<3, 15>>), pos |-> "XCAN_PC_PCFG_PWML"],
        SET |-> [op |-> "shl_and", pos |-> "XCAN_PC_PCFG_PWML", mask |-> "XCAN_PC_PCFG_PWML"],
        GET |-> [op |-> "and_shr", pos |-> "XCAN_PC_PCFG_PWML", mask |-> "XCAN_PC_PCFG_PWML"],
        reg |-> "XCAN_PC_PCFG_Register", bitfield |-> "PWML" ],
      [ name |-> "XCAN_PC_PCFG_PWMO", Pos |-> 16,
        Mask |-> [lit |-> Hex(<<3, 15>>), pos |-> "XCAN_PC_PCFG_PWMO"],
        SET |-> [op |-> "shl_and", pos |-> "XCAN_PC_PCFG_PWMO", mask |-> "XCAN_PC_PCFG_PWMO"],
        GET |-> [op |-> "and_shr", pos |-> "XCAN_PC_PCFG_PWMO", mask |-> "XCAN_PC_PCFG_PWMO"],
        reg |-> "XCAN_PC_PCFG_Register", bitfield |-> "PWMO" ]
    >>,
    flags |-> << >>,
    zeros |-> << >> ]

XCAN_IC_FR_Register ==
  [ name |-> "XCAN_IC_FR_Register",
    views |-> <<
      [ view |-> "Bits", fields |-> <<
        <<"MH_TX_FQ0_IRQ", 1>>, <<"MH_TX_FQ1_IRQ", 1>>, <<"MH_TX_FQ2_IRQ", 1>>,
        <<"MH_TX_FQ3_IRQ", 1>>, <<"MH_TX_FQ4_IRQ", 1>>, <<"MH_TX_FQ5_IRQ", 1>>,
        <<"MH_TX_FQ6_IRQ", 1>>, <<"MH_TX_FQ7_IRQ", 1>>, <<"MH_RX_FQ0_IRQ", 1>>,
        <<"MH_RX_FQ1_IRQ", 1>>, <<"MH_RX_FQ2_IRQ", 1>>, <<"MH_RX_FQ3_IRQ", 1>>,
        <<"MH_RX_FQ4_IRQ", 1>>, <<"MH_RX_FQ5_IRQ", 1>>, <<"MH_RX_FQ6_IRQ", 1>>,
        <<"MH_RX_FQ7_IRQ", 1>>, <<"MH_TX_PQ_IRQ", 1>>, <<"MH_STOP_IRQ", 1>>,
        <<"MH_RX_FILTER_IRQ", 1>>, <<"MH_TX_FILTER_IRQ", 1>>, <<"MH_TX_ABORT_IRQ", 1>>,
        <<"MH_RX_ABORT_IRQ", 1>>, <<"MH_STATS_IRQ", 1>>, <<"", 1>>, <<"PRT_E_ACTIVE", 1>>,
        <<"PRT_BUS_ON", 1>>, <<"PRT_TX_EVT", 1>>, <<"PRT_RX_EVT", 1>>, <<"", 3>> >> ]
    >>,
    macros |-> << >>,
    flags |-> <<
      [ name |-> "XCAN_IC_FR_MH_TX_FQ0_IRQ_EVENT", lit |-> 1, shift |-> 0, bitfield |-> "MH_TX_FQ0_IRQ" ],
      [ name |-> "XCAN_IC_FR_MH_TX_FQ1_IRQ_EVENT", lit |-> 1, shift |-> 1, bitfield |-> "MH_TX_FQ1_IRQ" ],
      [ name |-> "XCAN_IC_FR_MH_TX_FQ2_IRQ_EVENT", lit |-> 1, shift |-> 2, bitfield |-> "MH_TX_FQ2_IRQ" ],
      [ name |-> "XCAN_IC_FR_MH_TX_FQ3_IRQ_EVENT", lit |-> 1, shift |-> 3, bitfield |-> "MH_TX_FQ3_IRQ" ],
      [ name |-> "XCAN_IC_FR_MH_TX_FQ4_IRQ_EVENT", lit |-> 1, shift |-> 4, bitfield |-> "MH_TX_FQ4_IRQ" ],
      [ name |-> "XCAN_IC_FR_MH_TX_FQ5_IRQ_EVENT", lit |-> 1, shift |-> 5, bitfield |-> "MH_TX_FQ5_IRQ" ],
      [ name |-> "XCAN_IC_FR_MH_TX_FQ6_IRQ_EVENT", lit |-> 1, shift |-> 6, bitfield |-> "MH_TX_FQ6_IRQ" ],
      [ name |-> "XCAN_IC_FR_MH_TX_FQ7_IRQ_EVENT", lit |-> 1, shift |-> 7, bitfield |-> "MH_TX_FQ7_IRQ" ],
      [ name |-> "XCAN_IC_FR_MH_RX_FQ0_IRQ_EVENT", lit |-> 1, shift |-> 8, bitfield |-> "MH_RX_FQ0_IRQ" ],
      [ name |-> "XCAN_IC_FR_MH_RX_FQ1_IRQ_EVENT", lit |-> 1, shift |-> 9, bitfield |-> "MH_RX_FQ1_IRQ" ],
      [ name |-> "XCAN_IC_FR_MH_RX_FQ2_IRQ_EVENT", lit |-> 1, shift |-> 10, bitfield |-> "MH_RX_FQ2_IRQ" ],
      [ name |-> "XCAN_IC_FR_MH_RX_FQ3_IRQ_EVENT", lit |-> 1, shift |-> 11, bitfield |-> "MH_RX_FQ3_IRQ" ],
      [ name |-> "XCAN_IC_FR_MH_RX_FQ4_IRQ_EVENT", lit |-> 1, shift |-> 12, bitfield |-> "MH_RX_FQ4_IRQ" ],
      [ name |-> "XCAN_IC_FR_MH_RX_FQ5_IRQ_EVENT", lit |-> 1, shift |-> 13, bitfield |-> "MH_RX_FQ5_IRQ" ],
      [ name |-> "XCAN_IC_FR_MH_RX_FQ6_IRQ_EVENT", lit |-> 1, shift |-> 14, bitfield |-> "MH_RX_FQ6_IRQ" ],
      [ name |-> "XCAN_IC_FR_MH_RX_FQ7_IRQ_EVENT", lit |-> 1, shift |-> 15, bitfield |-> "MH_RX_FQ7_IRQ" ],
      [ name |-> "XCAN_IC_FR_MH_TX_PQ_IRQ_EVENT", lit |-> 1, shift |-> 16, bitfield |-> "MH_TX_PQ_IRQ" ],
      [ name |-> "XCAN_IC_FR_MH_STOP_IRQ_EVENT", lit |-> 1, shift |-> 17, bitfield |-> "MH_STOP_IRQ" ],
      [ name |-> "XCAN_IC_FR_MH_RX_FILTER_IRQ_EVENT", lit |-> 1, shift |-> 18, bitfield |-> "MH_RX_FILTER_IRQ" ],
      [ name |-> "XCAN_IC_FR_MH_TX_FILTER_IRQ_EVENT", lit |-> 1, shift |-> 19, bitfield |-> "MH_TX_FILTER_IRQ" ],
      [ name |-> "XCAN_IC_FR_MH_TX_ABORT_IRQ_EVENT", lit |-> 1, shift |-> 20, bitfield |-> "MH_TX_ABORT_IRQ" ],
      [ name |-> "XCAN_IC_FR_MH_RX_ABORT_IRQ_EVENT", lit |-> 1, shift |-> 21, bitfield |-> "MH_RX_ABORT_IRQ" ],
      [ name |-> "XCAN_IC_FR_MH_STATS_IRQ_EVENT", lit |-> 1, shift |-> 22, bitfield |-> "MH_STATS_IRQ" ],
      [ name |-> "XCAN_IC_FR_PRT_E_ACTIVE_EVENT", lit |-> 1, shift |-> 24, bitfield |-> "PRT_E_ACTIVE" ],
      [ name |-> "XCAN_IC_FR_PRT_BUS_ON_EVENT", lit |-> 1, shift |-> 25, bitfield |-> "PRT_BUS_ON" ],
      [ name |-> "XCAN_IC_FR_PRT_TX_EVT_EVENT", lit |-> 1, shift |-> 26, bitfield |-> "PRT_TX_EVT" ],
      [ name |-> "XCAN_IC_FR_PRT_RX_EVT_EVENT", lit |-> 1, shift |-> 27, bitfield |-> "PRT_RX_EVT" ]
    >>,
    zeros |-> << >> ]

XCAN_IC_ER_Register ==
  [ name |-> "XCAN_IC_ER_Register",
    views |-> <<
      [ view |-> "Bits", fields |-> <<
        <<"MH_RX_FILTER_ERR", 1>>, <<"MH_MEM_SFTY_ERR", 1>>, <<"MH_REG_CRC_ERR", 1>>,
        <<"MH_DESC_ERR", 1>>, <<"MH_AP_PARITY_ERR", 1>>, <<"MH_DP_PARITY_ERR", 1>>,
        <<"MH_DP_SEQ_ERR", 1>>, <<"MH_DP_DO_ERR", 1>>, <<"MH_DP_TO_ERR", 1>>, <<"MH_DMA_TO_ERR", 1>>,
        <<"MH_DMA_CH_ERR", 1>>, <<"MH_RD_RESP_ERR", 1>>, <<"MH_WR_RESP_ERR", 1>>,
        <<"MH_MEM_TO_ERR", 1>>, <<"", 2>>, <<"PRT_ABORTED", 1>>, <<"PRT_USOS", 1>>,
        <<"PRT_TX_DU", 1>>, <<"PRT_RX_DO", 1>>, <<"PRT_IFF_RQ", 1>>, <<"PRT_BUS_ERR", 1>>,
        <<"PRT_E_PASSIVE", 1>>, <<"PRT_BUS_OFF", 1>>, <<"", 4>>, <<"TOP_MUX_TO_ERR", 1>>, <<"", 3>> >> ]
    >>,
    macros |-> << >>,
    flags |-> <<
      [ name |-> "XCAN_IC_ER_SR_MH_RX_FILTER_ERR_EVENT", lit |-> 1, shift |-> 0, bitfield |-> "MH_RX_FILTER_ERR" ],
      [ name |-> "XCAN_IC_ER_SR_MH_MEM_SFTY_ERR_EVENT", lit |-> 1, shift |-> 1, bitfield |-> "MH_MEM_SFTY_ERR" ],
      [ name |-> "XCAN_IC_ER_SR_MH_REG_CRC_ERR_EVENT", lit |-> 1, shift |-> 2, bitfield |-> "MH_REG_CRC_ERR" ],
      [ name |-> "XCAN_IC_ER_SR_MH_DESC_ERR_EVENT", lit |-> 1, shift |-> 3, bitfield |-> "MH_DESC_ERR" ],
      [ name |-> "XCAN_IC_ER_SR_MH_AP_PARITY_ERR_EVENT", lit |-> 1, shift |-> 4, bitfield |-> "MH_AP_PARITY_ERR" ],
      [ name |-> "XCAN_IC_ER_SR_MH_DP_PARITY_ERR_EVENT", lit |-> 1, shift |-> 5, bitfield |-> "MH_DP_PARITY_ERR" ],
      [ name |-> "XCAN_IC_ER_SR_MH_DP_SEQ_ERR_EVENT", lit |-> 1, shift |-> 6, bitfield |-> "MH_DP_SEQ_ERR" ],
      [ name |-> "XCAN_IC_ER_SR_MH_DP_DO_ERR_EVENT", lit |-> 1, shift |-> 7, bitfield |-> "MH_DP_DO_ERR" ],
      [ name |-> "XCAN_IC_ER_SR_MH_DP_TO_ERR_EVENT", lit |-> 1, shift |-> 8, bitfield |-> "MH_DP_TO_ERR" ],
      [ name |-> "XCAN_IC_ER_SR_MH_DMA_TO_ERR_EVENT", lit |-> 1, shift |-> 9, bitfield |-> "MH_DMA_TO_ERR" ],
      [ name |-> "XCAN_IC_ER_SR_MH_DMA_CH_ERR_EVENT", lit |-> 1, shift |-> 10, bitfield |-> "MH_DMA_CH_ERR" ],
      [ name |-> "XCAN_IC_ER_SR_MH_RD_RESP_ERR_EVENT", lit |-> 1, shift |-> 11, bitfield |-> "MH_RD_RESP_ERR" ],
      [ name |-> "XCAN_IC_ER_SR_MH_WR_RESP_ERR_EVENT", lit |-> 1, shift |-> 12, bitfield |-> "MH_WR_RESP_ERR" ],
      [ name |-> "XCAN_IC_ER_SR_MH_MEM_TO_ERR_EVENT", lit |-> 1, shift |-> 13, bitfield |-> "MH_MEM_TO_ERR" ],
      [ name |-> "XCAN_IC_ER_SR_PRT_ABORTED_EVENT", lit |-> 1, shift |-> 16, bitfield |-> "PRT_ABORTED" ],
      [ name |-> "XCAN_IC_ER_SR_PRT_USOS_EVENT", lit |-> 1, shift |-> 17, bitfield |-> "PRT_USOS" ],
      [ name |-> "XCAN_IC_ER_SR_PRT_TX_DU_EVENT", lit |-> 1, shift |-> 18, bitfield |-> "PRT_TX_DU" ],
      [ name |-> "XCAN_IC_ER_SR_PRT_RX_DO_EVENT", lit |-> 1, shift |-> 19, bitfield |-> "PRT_RX_DO" ],
      [ name |-> "XCAN_IC_ER_SR_PRT_IFF_RQ_EVENT", lit |-> 1, shift |-> 20, bitfield |-> "PRT_IFF_RQ" ],
      [ name |-> "XCAN_IC_ER_SR_PRT_BUS_ERR_EVENT", lit |-> 1, shift |-> 21, bitfield |-> "PRT_BUS_ERR" ],
      [ name |-> "XCAN_IC_ER_SR_PRT_E_PASSIVE_EVENT", lit |-> 1, shift |-> 22, bitfield |-> "PRT_E_PASSIVE" ],
      [ name |-> "XCAN_IC_ER_SR_PRT_BUS_OFF_EVENT", lit |-> 1, shift |-> 23, bitfield |-> "PRT_BUS_OFF" ],
      [ name |-> "XCAN_IC_ER_SR_TOP_MUX_TO_ERR_EVENT", lit |-> 1, shift |-> 28, bitfield |-> "TOP_MUX_TO_ERR" ]
    >>,
    zeros |-> << >> ]

XCAN_IC_SR_Register ==
  [ name |-> "XCAN_IC_SR_Register",
    views |-> <<
      [ view |-> "Bits", fields |-> <<
        <<"MH_RX_FILTER_ERR", 1>>, <<"MH_MEM_SFTY_ERR", 1>>, <<"MH_REG_CRC_ERR", 1>>,
        <<"MH_DESC_ERR", 1>>, <<"MH_AP_PARITY_ERR", 1>>, <<"MH_DP_PARITY_ERR", 1>>,
        <<"MH_DP_SEQ_ERR", 1>>, <<"MH_DP_DO_ERR", 1>>, <<"MH_DP_TO_ERR", 1>>, <<"MH_DMA_TO_ERR", 1>>,
        <<"MH_DMA_CH_ERR", 1>>, <<"MH_RD_RESP_ERR", 1>>, <<"MH_WR_RESP_ERR", 1>>,
        <<"MH_MEM_TO_ERR", 1>>, <<"", 2>>, <<"PRT_ABORTED", 1>>, <<"PRT_USOS", 1>>,
        <<"PRT_TX_DU", 1>>, <<"PRT_RX_DO", 1>>, <<"PRT_IFF_RQ", 1>>, <<"PRT_BUS_ERR", 1>>,
        <<"PRT_E_PASSIVE", 1>>, <<"PRT_BUS_OFF", 1>>, <<"", 4>>, <<"TOP_MUX_TO_ERR", 1>>, <<"", 3>> >> ]
    >>,
    macros |-> << >>,
    flags |-> << >>,
    zeros |-> << >> ]

XCAN_IC_FC_Register ==
  [ name |-> "XCAN_IC_FC_Register",
    views |-> <<
      [ view |-> "Bits", fields |-> <<
        <<"MH_TX_FQ0_IRQ", 1>>, <<"MH_TX_FQ1_IRQ", 1>>, <<"MH_TX_FQ2_IRQ", 1>>,
        <<"MH_TX_FQ3_IRQ", 1>>, <<"MH_TX_FQ4_IRQ", 1>>, <<"MH_TX_FQ5_IRQ", 1>>,
        <<"MH_TX_FQ6_IRQ", 1>>, <<"MH_TX_FQ7_IRQ", 1>>, <<"MH_RX_FQ0_IRQ", 1>>,
        <<"MH_RX_FQ1_IRQ", 1>>, <<"MH_RX_FQ2_IRQ", 1>>, <<"MH_RX_FQ3_IRQ", 1>>,
        <<"MH_RX_FQ4_IRQ", 1>>, <<"MH_RX_FQ5_IRQ", 1>>, <<"MH_RX_FQ6_IRQ", 1>>,
        <<"MH_RX_FQ7_IRQ", 1>>, <<"MH_TX_PQ_IRQ", 1>>, <<"MH_STOP_IRQ", 1>>,
        <<"MH_RX_FILTER_IRQ", 1>>, <<"MH_TX_FILTER_IRQ", 1>>, <<"MH_TX_ABORT_IRQ", 1>>,
        <<"MH_RX_ABORT_IRQ", 1>>, <<"MH_STATS_IRQ", 1>>, <<"", 1>>, <<"PRT_E_ACTIVE", 1>>,
        <<"PRT_BUS_ON", 1>>, <<"PRT_TX_EVT", 1>>, <<"PRT_RX_EVT", 1>>, <<"", 3>> >> ]
    >>,
    macros |-> << >>,
    flags |-> <<
      [ name |-> "XCAN_IC_FC_MH_TX_FQ0_IRQ_CLEAR", lit |-> 1, shift |-> 0, bitfield |-> "MH_TX_FQ0_IRQ" ],
      [ name |-> "XCAN_IC_FC_MH_TX_FQ1_IRQ_CLEAR", lit |-> 1, shift |-> 1, bitfield |-> "MH_TX_FQ1_IRQ" ],
      [ name |-> "XCAN_IC_FC_MH_TX_FQ2_IRQ_CLEAR", lit |-> 1, shift |-> 2, bitfield |-> "MH_TX_FQ2_IRQ" ],
      [ name |-> "XCAN_IC_FC_MH_TX_FQ3_IRQ_CLEAR", lit |-> 1, shift |-> 3, bitfield |-> "MH_TX_FQ3_IRQ" ],
      [ name |-> "XCAN_IC_FC_MH_TX_FQ4_IRQ_CLEAR", lit |-> 1, shift |-> 4, bitfield |-> "MH_TX_FQ4_IRQ" ],
      [ name |-> "XCAN_IC_FC_MH_TX_FQ5_IRQ_CLEAR", lit |-> 1, shift |-> 5, bitfield |-> "MH_TX_FQ5_IRQ" ],
      [ name |-> "XCAN_IC_FC_MH_TX_FQ6_IRQ_CLEAR", lit |-> 1, shift |-> 6, bitfield |-> "MH_TX_FQ6_IRQ" ],
      [ name |-> "XCAN_IC_FC_MH_TX_FQ7_IRQ_CLEAR", lit |-> 1, shift |-> 7, bitfield |-> "MH_TX_FQ7_IRQ" ],
      [ name |-> "XCAN_IC_FC_MH_RX_FQ0_IRQ_CLEAR", lit |-> 1, shift |-> 8, bitfield |-> "MH_RX_FQ0_IRQ" ],
      [ name |-> "XCAN_IC_FC_MH_RX_FQ1_IRQ_CLEAR", lit |-> 1, shift |-> 9, bitfield |-> "MH_RX_FQ1_IRQ" ],
      [ name |-> "XCAN_IC_FC_MH_RX_FQ2_IRQ_CLEAR", lit |-> 1, shift |-> 10, bitfield |-> "MH_RX_FQ2_IRQ" ],
      [ name |-> "XCAN_IC_FC_MH_RX_FQ3_IRQ_CLEAR", lit |-> 1, shift |-> 11, bitfield |-> "MH_RX_FQ3_IRQ" ],
      [ name |-> "XCAN_IC_FC_MH_RX_FQ4_IRQ_CLEAR", lit |-> 1, shift |-> 12, bitfield |-> "MH_RX_FQ4_IRQ" ],
      [ name |-> "XCAN_IC_FC_MH_RX_FQ5_IRQ_CLEAR", lit |-> 1, shift |-> 13, bitfield |-> "MH_RX_FQ5_IRQ" ],
      [ name |-> "XCAN_IC_FC_MH_RX_FQ6_IRQ_CLEAR", lit |-> 1, shift |-> 14, bitfield |-> "MH_RX_FQ6_IRQ" ],
      [ name |-> "XCAN_IC_FC_MH_RX_FQ7_IRQ_CLEAR", lit |-> 1, shift |-> 15, bitfield |-> "MH_RX_FQ7_IRQ" ],
      [ name |-> "XCAN_IC_FC_MH_TX_PQ_IRQ_CLEAR", lit |-> 1, shift |-> 16, bitfield |-> "MH_TX_PQ_IRQ" ],
      [ name |-> "XCAN_IC_FC_MH_STOP_IRQ_CLEAR", lit |-> 1, shift |-> 17, bitfield |-> "MH_STOP_IRQ" ],
      [ name |-> "XCAN_IC_FC_MH_RX_FILTER_IRQ_CLEAR", lit |-> 1, shift |-> 18, bitfield |-> "MH_RX_FILTER_IRQ" ],
      [ name |-> "XCAN_IC_FC_MH_TX_FILTER_IRQ_CLEAR", lit |-> 1, shift |-> 19, bitfield |-> "MH_TX_FILTER_IRQ" ],
      [ name |-> "XCAN_IC_FC_MH_TX_ABORT_IRQ_CLEAR", lit |-> 1, shift |-> 20, bitfield |-> "MH_TX_ABORT_IRQ" ],
      [ name |-> "XCAN_IC_FC_MH_RX_ABORT_IRQ_CLEAR", lit |-> 1, shift |-> 21, bitfield |-> "MH_RX_ABORT_IRQ" ],
      [ name |-> "XCAN_IC_FC_MH_STATS_IRQ_CLEAR", lit |-> 1, shift |-> 22, bitfield |-> "MH_STATS_IRQ" ],
      [ name |-> "XCAN_IC_FC_PRT_E_ACTIVE_CLEAR", lit |-> 1, shift |-> 24, bitfield |-> "PRT_E_ACTIVE" ],
      [ name |-> "XCAN_IC_FC_PRT_BUS_ON_CLEAR", lit |-> 1, shift |-> 25, bitfield |-> "PRT_BUS_ON" ],
      [ name |-> "XCAN_IC_FC_PRT_TX_EVT_CLEAR", lit |-> 1, shift |-> 26, bitfield |-> "PRT_TX_EVT" ],
      [ name |-> "XCAN_IC_FC_PRT_RX_EVT_CLEAR", lit |-> 1, shift |-> 27, bitfield |-> "PRT_RX_EVT" ]
    >>,
    zeros |-> << >> ]

XCAN_IC_EC_Register ==
  [ name |-> "XCAN_IC_EC_Register",
    views |-> <<
      [ view |-> "Bits", fields |-> <<
        <<"MH_RX_FILTER_ERR", 1>>, <<"MH_MEM_SFTY_ERR", 1>>, <<"MH_REG_CRC_ERR", 1>>,
        <<"MH_DESC_ERR", 1>>, <<"MH_AP_PARITY_ERR", 1>>, <<"MH_DP_PARITY_ERR", 1>>,
        <<"MH_DP_SEQ_ERR", 1>>, <<"MH_DP_DO_ERR", 1>>, <<"MH_DP_TO_ERR", 1>>, <<"MH_DMA_TO_ERR", 1>>,
        <<"MH_DMA_CH_ERR", 1>>, <<"MH_RD_RESP_ERR", 1>>, <<"MH_WR_RESP_ERR", 1>>,
        <<"MH_MEM_TO_ERR", 1>>, <<"", 2>>, <<"PRT_ABORTED", 1>>, <<"PRT_USOS", 1>>,
        <<"PRT_TX_DU", 1>>, <<"PRT_RX_DO", 1>>, <<"PRT_IFF_RQ", 1>>, <<"PRT_BUS_ERR", 1>>,
        <<"PRT_E_PASSIVE", 1>>, <<"PRT_BUS_OFF", 1>>, <<"", 4>>, <<"TOP_MUX_TO_ERR", 1>>, <<"", 3>> >> ]
    >>,
    macros |-> << >>,
    flags |-> <<
      [ name |-> "XCAN_IC_EC_SC_MH_RX_FILTER_ERR_CLEAR", lit |-> 1, shift |-> 0, bitfield |-> "MH_RX_FILTER_ERR" ],
      [ name |-> "XCAN_IC_EC_SC_MH_MEM_SFTY_ERR_CLEAR", lit |-> 1, shift |-> 1, bitfield |-> "MH_MEM_SFTY_ERR" ],
      [ name |-> "XCAN_IC_EC_SC_MH_REG_CRC_ERR_CLEAR", lit |-> 1, shift |-> 2, bitfield |-> "MH_REG_CRC_ERR" ],
      [ name |-> "XCAN_IC_EC_SC_MH_DESC_ERR_CLEAR", lit |-> 1, shift |-> 3, bitfield |-> "MH_DESC_ERR" ],
      [ name |-> "XCAN_IC_EC_SC_MH_AP_PARITY_ERR_CLEAR", lit |-> 1, shift |-> 4, bitfield |-> "MH_AP_PARITY_ERR" ],
      [ name |-> "XCAN_IC_EC_SC_MH_DP_PARITY_ERR_CLEAR", lit |-> 1, shift |-> 5, bitfield |-> "MH_DP_PARITY_ERR" ],
      [ name |-> "XCAN_IC_EC_SC_MH_DP_SEQ_ERR_CLEAR", lit |-> 1, shift |-> 6, bitfield |-> "MH_DP_SEQ_ERR" ],
      [ name |-> "XCAN_IC_EC_SC_MH_DP_DO_ERR_CLEAR", lit |-> 1, shift |-> 7, bitfield |-> "MH_DP_DO_ERR" ],
      [ name |-> "XCAN_IC_EC_SC_MH_DP_TO_ERR_CLEAR", lit |-> 1, shift |-> 8, bitfield |-> "MH_DP_TO_ERR" ],
      [ name |-> "XCAN_IC_EC_SC_MH_DMA_TO_ERR_CLEAR", lit |-> 1, shift |-> 9, bitfield |-> "MH_DMA_TO_ERR" ],
      [ name |-> "XCAN_IC_EC_SC_MH_DMA_CH_ERR_CLEAR", lit |-> 1, shift |-> 10, bitfield |-> "MH_DMA_CH_ERR" ],
      [ name |-> "XCAN_IC_EC_SC_MH_RD_RESP_ERR_CLEAR", lit |-> 1, shift |-> 11, bitfield |-> "MH_RD_RESP_ERR" ],
      [ name |-> "XCAN_IC_EC_SC_MH_WR_RESP_ERR_CLEAR", lit |-> 1, shift |-> 12, bitfield |-> "MH_WR_RESP_ERR" ],
      [ name |-> "XCAN_IC_EC_SC_MH_MEM_TO_ERR_CLEAR", lit |-> 1, shift |-> 13, bitfield |-> "MH_MEM_TO_ERR" ],
      [ name |-> "XCAN_IC_EC_SC_PRT_ABORTED_CLEAR", lit |-> 1, shift |-> 16, bitfield |-> "PRT_ABORTED" ],
      [ name |-> "XCAN_IC_EC_SC_PRT_USOS_CLEAR", lit |-> 1, shift |-> 17, bitfield |-> "PRT_USOS" ],
      [ name |-> "XCAN_IC_EC_SC_PRT_TX_DU_CLEAR", lit |-> 1, shift |-> 18, bitfield |-> "PRT_TX_DU" ],
      [ name |-> "XCAN_IC_EC_SC_PRT_RX_DO_CLEAR", lit |-> 1, shift |-> 19, bitfield |-> "PRT_RX_DO" ],
      [ name |-> "XCAN_IC_EC_SC_PRT_IFF_RQ_CLEAR", lit |-> 1, shift |-> 20, bitfield |-> "PRT_IFF_RQ" ],
      [ name |-> "XCAN_IC_EC_SC_PRT_BUS_ERR_CLEAR", lit |-> 1, shift |-> 21, bitfield |-> "PRT_BUS_ERR" ],
      [ name |-> "XCAN_IC_EC_SC_PRT_E_PASSIVE_CLEAR", lit |-> 1, shift |-> 22, bitfield |-> "PRT_E_PASSIVE" ],
      [ name |-> "XCAN_IC_EC_SC_PRT_BUS_OFF_CLEAR", lit |-> 1, shift |-> 23, bitfield |-> "PRT_BUS_OFF" ],
      [ name |-> "XCAN_IC_EC_SC_TOP_MUX_TO_ERR_CLEAR", lit |-> 1, shift |-> 28, bitfield |-> "TOP_MUX_TO_ERR" ]
    >>,
    zeros |-> << >> ]

XCAN_IC_SC_Register ==
  [ name |-> "XCAN_IC_SC_Register",
    views |-> <<
      [ view |-> "Bits", fields |-> <<
        <<"MH_RX_FILTER_ERR", 1>>, <<"MH_MEM_SFTY_ERR", 1>>, <<"MH_REG_CRC_ERR", 1>>,
        <<"MH_DESC_ERR", 1>>, <<"MH_AP_PARITY_ERR", 1>>, <<"MH_DP_PARITY_ERR", 1>>,
        <<"MH_DP_SEQ_ERR", 1>>, <<"MH_DP_DO_ERR", 1>>, <<"MH_DP_TO_ERR", 1>>, <<"MH_DMA_TO_ERR", 1>>,
        <<"MH_DMA_CH_ERR", 1>>, <<"MH_RD_RESP_ERR", 1>>, <<"MH_WR_RESP_ERR", 1>>,
        <<"MH_MEM_TO_ERR", 1>>, <<"", 2>>, <<"PRT_ABORTED", 1>>, <<"PRT_USOS", 1>>,
        <<"PRT_TX_DU", 1>>, <<"PRT_RX_DO", 1>>, <<"PRT_IFF_RQ", 1>>, <<"PRT_BUS_ERR", 1>>,
        <<"PRT_E_PASSIVE", 1>>, <<"PRT_BUS_OFF", 1>>, <<"", 4>>, <<"TOP_MUX_TO_ERR", 1>>, <<"", 3>> >> ]
    >>,
    macros |-> << >>,
    flags |-> << >>,
    zeros |-> << >> ]

XCAN_IC_FE_Register ==
  [ name |-> "XCAN_IC_FE_Register",
    views |-> <<
      [ view |-> "Bits", fields |-> <<
        <<"MH_TX_FQ0_IRQ", 1>>, <<"MH_TX_FQ1_IRQ", 1>>, <<"MH_TX_FQ2_IRQ", 1>>,
        <<"MH_TX_FQ3_IRQ", 1>>, <<"MH_TX_FQ4_IRQ", 1>>, <<"MH_TX_FQ5_IRQ", 1>>,
        <<"MH_TX_FQ6_IRQ", 1>>, <<"MH_TX_FQ7_IRQ", 1>>, <<"MH_RX_FQ0_IRQ", 1>>,
        <<"MH_RX_FQ1_IRQ", 1>>, <<"MH_RX_FQ2_IRQ", 1>>, <<"MH_RX_FQ3_IRQ", 1>>,
        <<"MH_RX_FQ4_IRQ", 1>>, <<"MH_RX_FQ5_IRQ", 1>>, <<"MH_RX_FQ6_IRQ", 1>>,
        <<"MH_RX_FQ7_IRQ", 1>>, <<"MH_TX_PQ_IRQ", 1>>, <<"MH_STOP_IRQ", 1>>,
        <<"MH_RX_FILTER_IRQ", 1>>, <<"MH_TX_FILTER_IRQ", 1>>, <<"MH_TX_ABORT_IRQ", 1>>,
        <<"MH_RX_ABORT_IRQ", 1>>, <<"MH_STATS_IRQ", 1>>, <<"", 1>>, <<"PRT_E_ACTIVE", 1>>,
        <<"PRT_BUS_ON", 1>>, <<"PRT_TX_EVT", 1>>, <<"PRT_RX_EVT", 1>>, <<"", 3>> >> ]
    >>,
    macros |-> << >>,
    flags |-> <<
      [ name |-> "XCAN_IC_FE_MH_TX_FQ0_IRQ_EN", lit |-> 1, shift |-> 0, bitfield |-> "MH_TX_FQ0_IRQ" ],
      [ name |-> "XCAN_IC_FE_MH_TX_FQ1_IRQ_EN", lit |-> 1, shift |-> 1, bitfield |-> "MH_TX_FQ1_IRQ" ],
      [ name |-> "XCAN_IC_FE_MH_TX_FQ2_IRQ_EN", lit |-> 1, shift |-> 2, bitfield |-> "MH_TX_FQ2_IRQ" ],
      [ name |-> "XCAN_IC_FE_MH_TX_FQ3_IRQ_EN", lit |-> 1, shift |-> 3, bitfield |-> "MH_TX_FQ3_IRQ" ],
      [ name |-> "XCAN_IC_FE_MH_TX_FQ4_IRQ_EN", lit |-> 1, shift |-> 4, bitfield |-> "MH_TX_FQ4_IRQ" ],
      [ name |-> "XCAN_IC_FE_MH_TX_FQ5_IRQ_EN", lit |-> 1, shift |-> 5, bitfield |-> "MH_TX_FQ5_IRQ" ],
      [ name |-> "XCAN_IC_FE_MH_TX_FQ6_IRQ_EN", lit |-> 1, shift |-> 6, bitfield |-> "MH_TX_FQ6_IRQ" ],
      [ name |-> "XCAN_IC_FE_MH_TX_FQ7_IRQ_EN", lit |-> 1, shift |-> 7, bitfield |-> "MH_TX_FQ7_IRQ" ],
      [ name |-> "XCAN_IC_FE_MH_RX_FQ0_IRQ_EN", lit |-> 1, shift |-> 8, bitfield |-> "MH_RX_FQ0_IRQ" ],
      [ name |-> "XCAN_IC_FE_MH_RX_FQ1_IRQ_EN", lit |-> 1, shift |-> 9, bitfield |-> "MH_RX_FQ1_IRQ" ],
      [ name |-> "XCAN_IC_FE_MH_RX_FQ2_IRQ_EN", lit |-> 1, shift |-> 10, bitfield |-> "MH_RX_FQ2_IRQ" ],
      [ name |-> "XCAN_IC_FE_MH_RX_FQ3_IRQ_EN", lit |-> 1, shift |-> 11, bitfield |-> "MH_RX_FQ3_IRQ" ],
      [ name |-> "XCAN_IC_FE_MH_RX_FQ4_IRQ_EN", lit |-> 1, shift |-> 12, bitfield |-> "MH_RX_FQ4_IRQ" ],
      [ name |-> "XCAN_IC_FE_MH_RX_FQ5_IRQ_EN", lit |-> 1, shift |-> 13, bitfield |-> "MH_RX_FQ5_IRQ" ],
      [ name |-> "XCAN_IC_FE_MH_RX_FQ6_IRQ_EN", lit |-> 1, shift |-> 14, bitfield |-> "MH_RX_FQ6_IRQ" ],
      [ name |-> "XCAN_IC_FE_MH_RX_FQ7_IRQ_EN", lit |-> 1, shift |-> 15, bitfield |-> "MH_RX_FQ7_IRQ" ],
      [ name |-> "XCAN_IC_FE_MH_TX_PQ_IRQ_EN", lit |-> 1, shift |-> 16, bitfield |-> "MH_TX_PQ_IRQ" ],
      [ name |-> "XCAN_IC_FE_MH_STOP_IRQ_EN", lit |-> 1, shift |-> 17, bitfield |-> "MH_STOP_IRQ" ],
      [ name |-> "XCAN_IC_FE_MH_RX_FILTER_IRQ_EN", lit |-> 1, shift |-> 18, bitfield |-> "MH_RX_FILTER_IRQ" ],
      [ name |-> "XCAN_IC_FE_MH_TX_FILTER_IRQ_EN", lit |-> 1, shift |-> 19, bitfield |-> "MH_TX_FILTER_IRQ" ],
      [ name |-> "XCAN_IC_FE_MH_TX_ABORT_IRQ_EN", lit |-> 1, shift |-> 20, bitfield |-> "MH_TX_ABORT_IRQ" ],
      [ name |-> "XCAN_IC_FE_MH_RX_ABORT_IRQ_EN", lit |-> 1, shift |-> 21, bitfield |-> "MH_RX_ABORT_IRQ" ],
      [ name |-> "XCAN_IC_FE_MH_STATS_IRQ_EN", lit |-> 1, shift |-> 22, bitfield |-> "MH_STATS_IRQ" ],
      [ name |-> "XCAN_IC_FE_PRT_E_ACTIVE_EN", lit |-> 1, shift |-> 24, bitfield |-> "PRT_E_ACTIVE" ],
      [ name |-> "XCAN_IC_FE_PRT_BUS_ON_EN", lit |-> 1, shift |-> 25, bitfield |-> "PRT_BUS_ON" ],
      [ name |-> "XCAN_IC_FE_PRT_TX_EVT_EN", lit |-> 1, shift |-> 26, bitfield |-> "PRT_TX_EVT" ],
      [ name |-> "XCAN_IC_FE_PRT_RX_EVT_EN", lit |-> 1, shift |-> 27, bitfield |-> "PRT_RX_EVT" ]
    >>,
    zeros |-> <<
      [ name |-> "XCAN_IC_FE_MH_TX_FQ0_IRQ_DIS", lit |-> 0, shift |-> 0, bitfield |-> "MH_TX_FQ0_IRQ" ],
      [ name |-> "XCAN_IC_FE_MH_TX_FQ1_IRQ_DIS", lit |-> 0, shift |-> 1, bitfield |-> "MH_TX_FQ1_IRQ" ],
      [ name |-> "XCAN_IC_FE_MH_TX_FQ2_IRQ_DIS", lit |-> 0, shift |-> 2, bitfield |-> "MH_TX_FQ2_IRQ" ],
      [ name |-> "XCAN_IC_FE_MH_TX_FQ3_IRQ_DIS", lit |-> 0, shift |-> 3, bitfield |-> "MH_TX_FQ3_IRQ" ],
      [ name |-> "XCAN_IC_FE_MH_TX_FQ4_IRQ_DIS", lit |-> 0, shift |-> 4, bitfield |-> "MH_TX_FQ4_IRQ" ],
      [ name |-> "XCAN_IC_FE_MH_TX_FQ5_IRQ_DIS", lit |-> 0, shift |-> 5, bitfield |-> "MH_TX_FQ5_IRQ" ],
      [ name |-> "XCAN_IC_FE_MH_TX_FQ6_IRQ_DIS", lit |-> 0, shift |-> 6, bitfield |-> "MH_TX_FQ6_IRQ" ],
      [ name |-> "XCAN_IC_FE_MH_TX_FQ7_IRQ_DIS", lit |-> 0, shift |-> 7, bitfield |-> "MH_TX_FQ7_IRQ" ],
      [ name |-> "XCAN_IC_FE_MH_RX_FQ0_IRQ_DIS", lit |-> 0, shift |-> 8, bitfield |-> "MH_RX_FQ0_IRQ" ],
      [ name |-> "XCAN_IC_FE_MH_RX_FQ1_IRQ_DIS", lit |-> 0, shift |-> 9, bitfield |-> "MH_RX_FQ1_IRQ" ],
      [ name |-> "XCAN_IC_FE_MH_RX_FQ2_IRQ_DIS", lit |-> 0, shift |-> 10, bitfield |-> "MH_RX_FQ2_IRQ" ],
      [ name |-> "XCAN_IC_FE_MH_RX_FQ3_IRQ_DIS", lit |-> 0, shift |-> 11, bitfield |-> "MH_RX_FQ3_IRQ" ],
      [ name |-> "XCAN_IC_FE_MH_RX_FQ4_IRQ_DIS", lit |-> 0, shift |-> 12, bitfield |-> "MH_RX_FQ4_IRQ" ],
      [ name |-> "XCAN_IC_FE_MH_RX_FQ5_IRQ_DIS", lit |-> 0, shift |-> 13, bitfield |-> "MH_RX_FQ5_IRQ" ],
      [ name |-> "XCAN_IC_FE_MH_RX_FQ6_IRQ_DIS", lit |-> 0, shift |-> 14, bitfield |-> "MH_RX_FQ6_IRQ" ],
      [ name |-> "XCAN_IC_FE_MH_RX_FQ7_IRQ_DIS", lit |-> 0, shift |-> 15, bitfield |-> "MH_RX_FQ7_IRQ" ],
      [ name |-> "XCAN_IC_FE_MH_TX_PQ_IRQ_DIS", lit |-> 0, shift |-> 16, bitfield |-> "MH_TX_PQ_IRQ" ],
      [ name |-> "XCAN_IC_FE_MH_STOP_IRQ_DIS", lit |-> 0, shift |-> 17, bitfield |-> "MH_STOP_IRQ" ],
      [ name |-> "XCAN_IC_FE_MH_RX_FILTER_IRQ_DIS", lit |-> 0, shift |-> 18, bitfield |-> "MH_RX_FILTER_IRQ" ],
      [ name |-> "XCAN_IC_FE_MH_TX_FILTER_IRQ_DIS", lit |-> 0, shift |-> 19, bitfield |-> "MH_TX_FILTER_IRQ" ],
      [ name |-> "XCAN_IC_FE_MH_TX_ABORT_IRQ_DIS", lit |-> 0, shift |-> 20, bitfield |-> "MH_TX_ABORT_IRQ" ],
      [ name |-> "XCAN_IC_FE_MH_RX_ABORT_IRQ_DIS", lit |-> 0, shift |-> 21, bitfield |-> "MH_RX_ABORT_IRQ" ],
      [ name |-> "XCAN_IC_FE_MH_STATS_IRQ_DIS", lit |-> 0, shift |-> 22, bitfield |-> "MH_STATS_IRQ" ],
      [ name |-> "XCAN_IC_FE_PRT_E_ACTIVE_DIS", lit |-> 0, shift |-> 24, bitfield |-> "PRT_E_ACTIVE" ],
      [ name |-> "XCAN_IC_FE_PRT_BUS_ON_DIS", lit |-> 0, shift |-> 25, bitfield |-> "PRT_BUS_ON" ],
      [ name |-> "XCAN_IC_FE_PRT_TX_EVT_DIS", lit |-> 0, shift |-> 26, bitfield |-> "PRT_TX_EVT" ],
      [ name |-> "XCAN_IC_FE_PRT_RX_EVT_DIS", lit |-> 0, shift |-> 27, bitfield |-> "PRT_RX_EVT" ]
    >> ]

XCAN_IC_EE_Register ==
  [ name |-> "XCAN_IC_EE_Register",
    views |-> <<
      [ view |-> "Bits", fields |-> <<
        <<"MH_RX_FILTER_ERR", 1>>, <<"MH_MEM_SFTY_ERR", 1>>, <<"MH_REG_CRC_ERR", 1>>,
        <<"MH_DESC_ERR", 1>>, <<"MH_AP_PARITY_ERR", 1>>, <<"MH_DP_PARITY_ERR", 1>>,
        <<"MH_DP_SEQ_ERR", 1>>, <<"MH_DP_DO_ERR", 1>>, <<"MH_DP_TO_ERR", 1>>, <<"MH_DMA_TO_ERR", 1>>,
        <<"MH_DMA_CH_ERR", 1>>, <<"MH_RD_RESP_ERR", 1>>, <<"MH_WR_RESP_ERR", 1>>,
        <<"MH_MEM_TO_ERR", 1>>, <<"", 2>>, <<"PRT_ABORTED", 1>>, <<"PRT_USOS", 1>>,
        <<"PRT_TX_DU", 1>>, <<"PRT_RX_DO", 1>>, <<"PRT_IFF_RQ", 1>>, <<"PRT_BUS_ERR", 1>>,
        <<"PRT_E_PASSIVE", 1>>, <<"PRT_BUS_OFF", 1>>, <<"", 4>>, <<"TOP_MUX_TO_ERR", 1>>, <<"", 3>> >> ]
    >>,
    macros |-> << >>,
    flags |-> <<
      [ name |-> "XCAN_IC_EE_SE_MH_RX_FILTER_ERR_EN", lit |-> 1, shift |-> 0, bitfield |-> "MH_RX_FILTER_ERR" ],
      [ name |-> "XCAN_IC_EE_SE_MH_MEM_SFTY_ERR_EN", lit |-> 1, shift |-> 1, bitfield |-> "MH_MEM_SFTY_ERR" ],
      [ name |-> "XCAN_IC_EE_SE_MH_REG_CRC_ERR_EN", lit |-> 1, shift |-> 2, bitfield |-> "MH_REG_CRC_ERR" ],
      [ name |-> "XCAN_IC_EE_SE_MH_DESC_ERR_EN", lit |-> 1, shift |-> 3, bitfield |-> "MH_DESC_ERR" ],
      [ name |-> "XCAN_IC_EE_SE_MH_AP_PARITY_ERR_EN", lit |-> 1, shift |-> 4, bitfield |-> "MH_AP_PARITY_ERR" ],
      [ name |-> "XCAN_IC_EE_SE_MH_DP_PARITY_ERR_EN", lit |-> 1, shift |-> 5, bitfield |-> "MH_DP_PARITY_ERR" ],
      [ name |-> "XCAN_IC_EE_SE_MH_DP_SEQ_ERR_EN", lit |-> 1, shift |-> 6, bitfield |-> "MH_DP_SEQ_ERR" ],
      [ name |-> "XCAN_IC_EE_SE_MH_DP_DO_ERR_EN", lit |-> 1, shift |-> 7, bitfield |-> "MH_DP_DO_ERR" ],
      [ name |-> "XCAN_IC_EE_SE_MH_DP_TO_ERR_EN", lit |-> 1, shift |-> 8, bitfield |-> "MH_DP_TO_ERR" ],
      [ name |-> "XCAN_IC_EE_SE_MH_DMA_TO_ERR_EN", lit |-> 1, shift |-> 9, bitfield |-> "MH_DMA_TO_ERR" ],
      [ name |-> "XCAN_IC_EE_SE_MH_DMA_CH_ERR_EN", lit |-> 1, shift |-> 10, bitfield |-> "MH_DMA_CH_ERR" ],
      [ name |-> "XCAN_IC_EE_SE_MH_RD_RESP_ERR_EN", lit |-> 1, shift |-> 11, bitfield |-> "MH_RD_RESP_ERR" ],
      [ name |-> "XCAN_IC_EE_SE_MH_WR_RESP_ERR_EN", lit |-> 1, shift |-> 12, bitfield |-> "MH_WR_RESP_ERR" ],
      [ name |-> "XCAN_IC_EE_SE_MH_MEM_TO_ERR_EN", lit |-> 1, shift |-> 13, bitfield |-> "MH_MEM_TO_ERR" ],
      [ name |-> "XCAN_IC_EE_SE_PRT_ABORTED_EN", lit |-> 1, shift |-> 16, bitfield |-> "PRT_ABORTED" ],
      [ name |-> "XCAN_IC_EE_SE_PRT_USOS_EN", lit |-> 1, shift |-> 17, bitfield |-> "PRT_USOS" ],
      [ name |-> "XCAN_IC_EE_SE_PRT_TX_DU_EN", lit |-> 1, shift |-> 18, bitfield |-> "PRT_TX_DU" ],
      [ name |-> "XCAN_IC_EE_SE_PRT_RX_DO_EN", lit |-> 1, shift |-> 19, bitfield |-> "PRT_RX_DO" ],
      [ name |-> "XCAN_IC_EE_SE_PRT_IFF_RQ_EN", lit |-> 1, shift |-> 20, bitfield |-> "PRT_IFF_RQ" ],
      [ name |-> "XCAN_IC_EE_SE_PRT_BUS_ERR_EN", lit |-> 1, shift |-> 21, bitfield |-> "PRT_BUS_ERR" ],
      [ name |-> "XCAN_IC_EE_SE_PRT_E_PASSIVE_EN", lit |-> 1, shift |-> 22, bitfield |-> "PRT_E_PASSIVE" ],
      [ name |-> "XCAN_IC_EE_SE_PRT_BUS_OFF_EN", lit |-> 1, shift |-> 23, bitfield |-> "PRT_BUS_OFF" ],
      [ name |-> "XCAN_IC_EE_SE_TOP_MUX_TO_ERR_EN", lit |-> 1, shift |-> 28, bitfield |-> "TOP_MUX_TO_ERR" ]
    >>,
    zeros |-> <<
      [ name |-> "XCAN_IC_EE_SE_MH_RX_FILTER_ERR_DIS", lit |-> 0, shift |-> 0, bitfield |-> "MH_RX_FILTER_ERR" ],
      [ name |-> "XCAN_IC_EE_SE_MH_MEM_SFTY_ERR_DIS", lit |-> 0, shift |-> 1, bitfield |-> "MH_MEM_SFTY_ERR" ],
      [ name |-> "XCAN_IC_EE_SE_MH_REG_CRC_ERR_DIS", lit |-> 0, shift |-> 2, bitfield |-> "MH_REG_CRC_ERR" ],
      [ name |-> "XCAN_IC_EE_SE_MH_DESC_ERR_DIS", lit |-> 0, shift |-> 3, bitfield |-> "MH_DESC_ERR" ],
      [ name |-> "XCAN_IC_EE_SE_MH_AP_PARITY_ERR_DIS", lit |-> 0, shift |-> 4, bitfield |-> "MH_AP_PARITY_ERR" ],
      [ name |-> "XCAN_IC_EE_SE_MH_DP_PARITY_ERR_DIS", lit |-> 0, shift |-> 5, bitfield |-> "MH_DP_PARITY_ERR" ],
      [ name |-> "XCAN_IC_EE_SE_MH_DP_SEQ_ERR_DIS", lit |-> 0, shift |-> 6, bitfield |-> "MH_DP_SEQ_ERR" ],
      [ name |-> "XCAN_IC_EE_SE_MH_DP_DO_ERR_DIS", lit |-> 0, shift |-> 7, bitfield |-> "MH_DP_DO_ERR" ],
      [ name |-> "XCAN_IC_EE_SE_MH_DP_TO_ERR_DIS", lit |-> 0, shift |-> 8, bitfield |-> "MH_DP_TO_ERR" ],
      [ name |-> "XCAN_IC_EE_SE_MH_DMA_TO_ERR_DIS", lit |-> 0, shift |-> 9, bitfield |-> "MH_DMA_TO_ERR" ],
      [ name |-> "XCAN_IC_EE_SE_MH_DMA_CH_ERR_DIS", lit |-> 0, shift |-> 10, bitfield |-> "MH_DMA_CH_ERR" ],
      [ name |-> "XCAN_IC_EE_SE_MH_RD_RESP_ERR_DIS", lit |-> 0, shift |-> 11, bitfield |-> "MH_RD_RESP_ERR" ],
      [ name |-> "XCAN_IC_EE_SE_MH_WR_RESP_ERR_DIS", lit |-> 0, shift |-> 12, bitfield |-> "MH_WR_RESP_ERR" ],
      [ name |-> "XCAN_IC_EE_SE_MH_MEM_TO_ERR_DIS", lit |-> 0, shift |-> 13, bitfield |-> "MH_MEM_TO_ERR" ],
      [ name |-> "XCAN_IC_EE_SE_PRT_ABORTED_DIS", lit |-> 0, shift |-> 16, bitfield |-> "PRT_ABORTED" ],
      [ name |-> "XCAN_IC_EE_SE_PRT_USOS_DIS", lit |-> 0, shift |-> 17, bitfield |-> "PRT_USOS" ],
      [ name |-> "XCAN_IC_EE_SE_PRT_TX_DU_DIS", lit |-> 0, shift |-> 18, bitfield |-> "PRT_TX_DU" ],
      [ name |-> "XCAN_IC_EE_SE_PRT_RX_DO_DIS", lit |-> 0, shift |-> 19, bitfield |-> "PRT_RX_DO" ],
      [ name |-> "XCAN_IC_EE_SE_PRT_IFF_RQ_DIS", lit |-> 0, shift |-> 20, bitfield |-> "PRT_IFF_RQ" ],
      [ name |-> "XCAN_IC_EE_SE_PRT_BUS_ERR_DIS", lit |-> 0, shift |-> 21, bitfield |-> "PRT_BUS_ERR" ],
      [ name |-> "XCAN_IC_EE_SE_PRT_E_PASSIVE_DIS", lit |-> 0, shift |-> 22, bitfield |-> "PRT_E_PASSIVE" ],
      [ name |-> "XCAN_IC_EE_SE_PRT_BUS_OFF_DIS", lit |-> 0, shift |-> 23, bitfield |-> "PRT_BUS_OFF" ],
      [ name |-> "XCAN_IC_EE_SE_TOP_MUX_TO_ERR_DIS", lit |-> 0, shift |-> 28, bitfield |-> "TOP_MUX_TO_ERR" ]
    >> ]

XCAN_IC_SE_Register ==
  [ name |-> "XCAN_IC_SE_Register",
    views |-> <<
      [ view |-> "Bits", fields |-> <<
        <<"MH_RX_FILTER_ERR", 1>>, <<"MH_MEM_SFTY_ERR", 1>>, <<"MH_REG_CRC_ERR", 1>>,
        <<"MH_DESC_ERR", 1>>, <<"MH_AP_PARITY_ERR", 1>>, <<"MH_DP_PARITY_ERR", 1>>,
        <<"MH_DP_SEQ_ERR", 1>>, <<"MH_DP_DO_ERR", 1>>, <<"MH_DP_TO_ERR", 1>>, <<"MH_DMA_TO_ERR", 1>>,
        <<"MH_DMA_CH_ERR", 1>>, <<"MH_RD_RESP_ERR", 1>>, <<"MH_WR_RESP_ERR", 1>>,
        <<"MH_MEM_TO_ERR", 1>>, <<"", 2>>, <<"PRT_ABORTED", 1>>, <<"PRT_USOS", 1>>,
        <<"PRT_TX_DU", 1>>, <<"PRT_RX_DO", 1>>, <<"PRT_IFF_RQ", 1>>, <<"PRT_BUS_ERR", 1>>,
        <<"PRT_E_PASSIVE", 1>>, <<"PRT_BUS_OFF", 1>>, <<"", 4>>, <<"TOP_MUX_TO_ERR", 1>>, <<"", 3>> >> ]
    >>,
    macros |-> << >>,
    flags |-> << >>,
    zeros |-> << >> ]

XCAN_IC_CM_Register ==
  [ name |-> "XCAN_IC_CM_Register",
    views |-> <<
      [ view |-> "Bits", fields |-> <<
        <<"FUNC", 1>>, <<"ERR", 1>>, <<"SAFETY", 1>>, <<"", 29>> >> ]
    >>,
    macros |-> << >>,
    flags |-> <<
      [ name |-> "XCAN_IC_CM_FUNC_EDGE_SENSITIVE", lit |-> 1, shift |-> 0, bitfield |-> "FUNC" ],
      [ name |-> "XCAN_IC_CM_ERR_EDGE_SENSITIVE", lit |-> 1, shift |-> 0, bitfield |-> "ERR" ],
      [ name |-> "XCAN_IC_CM_SAFETY_EDGE_SENSITIVE", lit |-> 1, shift |-> 0, bitfield |-> "SAFETY" ]
    >>,
    zeros |-> <<
      [ name |-> "XCAN_IC_CM_FUNC_LEVEL_SENSITIVE", lit |-> 0, shift |-> 0, bitfield |-> "FUNC" ],
      [ name |-> "XCAN_IC_CM_ERR_LEVEL_SENSITIVE", lit |-> 0, shift |-> 0, bitfield |-> "ERR" ],
      [ name |-> "XCAN_IC_CM_SAFETY_LEVEL_SENSITIVE", lit |-> 0, shift |-> 0, bitfield |-> "SAFETY" ]
    >> ]

XCAN_IC_HDP_Register ==
  [ name |-> "XCAN_IC_HDP_Register",
    views |-> <<
      [ view |-> "Bits", fields |-> <<
        <<"HDP_SEL", 1>>, <<"", 31>> >> ]
    >>,
    macros |-> << >>,
    flags |-> << >>,
    zeros |-> << >> ]

Registers ==
  << XCAN_TxDMAinfoCtrl1, XCAN_TxDMAinfoCtrl2, XCAN_TxMessageHeader0, XCAN_TxMessageHeader1,
     XCAN_RxDMAinfoCtrl1, XCAN_RxMessageHeader0, XCAN_RxMessageHeader1, XCAN_RX_FQ_ADD_PT_Register,
     XCAN_RX_FQ_SIZE_Register, XCAN_RX_FQ_DC_START_ADD_Register, XCAN_RX_FQ_RD_ADD_PT_Register,
     XCAN_TX_FILTER_CTRL0_Register, XCAN_TX_FILTER_CTRL1_Register, XCAN_TX_FILTER_REFVAL_Register,
     XCAN_RX_FILTER_CTRL_Register, XCAN_TX_FQ_INT_STS_Register, XCAN_RX_FQ_INT_STS_Register,
     XCAN_TX_PQ_INT_STS0_Register, XCAN_TX_PQ_INT_STS1_Register, XCAN_STATS_INT_STS_Register,
     XCAN_ERR_INT_STS_Register, XCAN_SFTY_INT_STS_Register, XCAN_AXI_ERR_INFO_Register,
     XCAN_DESC_ERR_INFO0_Register, XCAN_DESC_ERR_INFO1_Register, XCAN_TX_FILTER_ERR_INFO_Register,
     XCAN_DEBUG_TEST_CTRL_Register, XCAN_INT_TEST0_Register, XCAN_INT_TEST1_Register,
     XCAN_TX_SCAN_FC_Register, XCAN_TX_SCAN_BC_Register, XCAN_TX_FQ_DESC_VALID_Register,
     XCAN_TX_PQ_DESC_VALID_Register, XCAN_CRC_CTRL_Register, XCAN_CRC_REG_Register,
     XCAN_PC_PREL_Register, XCAN_PC_STAT_Register, XCAN_PC_EVNT_Register, XCAN_IC_LOCK_Register,
     XCAN_IC_CTRL_Register, XCAN_IC_FIMC_Register, XCAN_PC_TEST_Register, XCAN_PC_MODE_Register,
     XCAN_PC_NBTP_Register, XCAN_PC_DBTP_Register, XCAN_PC_XBTP_Register, XCAN_PC_PCFG_Register,
     XCAN_IC_FR_Register, XCAN_IC_ER_Register, XCAN_IC_SR_Register, XCAN_IC_FC_Register,
     XCAN_IC_EC_Register, XCAN_IC_SC_Register, XCAN_IC_FE_Register, XCAN_IC_EE_Register,
     XCAN_IC_SE_Register, XCAN_IC_CM_Register, XCAN_IC_HDP_Register >>

\* The typedefs that declare bit-fields.
BitFieldStructs == SelectSeq(Registers, LAMBDA r : Len(r.views) > 0)

\* Every single-bit flag constant, with the typedef it follows.
FlagConstants ==
  UNION {{[name |-> r.flags[i].name, value |-> Shl(Hex(<<r.flags[i].lit>>), r.flags[i].shift),
            reg |-> r.name, bitfield |-> r.flags[i].bitfield] : i \in 1 .. Len(r.flags)} :
           r \in {Registers[k] : k \in 1 .. Len(Registers)}}

\* Every constant (0u << n) named after a one-bit bit-field.
ZeroConstants ==
  UNION {{[name |-> r.zeros[i].name, value |-> Shl(Hex(<<r.zeros[i].lit>>), r.zeros[i].shift),
            reg |-> r.name, bitfield |-> r.zeros[i].bitfield] : i \in 1 .. Len(r.zeros)} :
           r \in {Registers[k] : k \in 1 .. Len(Registers)}}

\* Every field that has accessor macros.
FieldMacros == UNION {{r.macros[i] : i \in 1 .. Len(r.macros)} : r \in {Registers[k] : k \in 1 .. Len(Registers)}}

\* ---------------------------------------------------------------------------
\* Expansion of the accessor macros
\* ---------------------------------------------------------------------------
Field(n) == CHOOSE r \in FieldMacros : r.name = n

\* n_Pos
Pos(n) == Field(n).Pos

\* n_Mask had the literal not been shifted to the field's position.
Mask_NotShifted(n) == Field(n).Mask.lit

\* n_Mask: (literal << m_Pos), m being the field the mask's body names.
Mask(n) == Shl(Field(n).Mask.lit, Pos(Field(n).Mask.pos))

\* The bodies, had _SET shifted the value without masking it.
Expand_Unmasked(macro, value) ==
  CASE macro.op = "shl_and"     -> Shl(U32(value), Pos(macro.pos))
    [] macro.op = "and_shr"     -> Shr(And(U32(value), Mask(macro.mask)), Pos(macro.pos))
    [] macro.op = "dcb_and_shr" ->
         XCAN_DCB8_TO_DECIMAL(Shr(And(U32(value), Mask(macro.mask)), Pos(macro.pos)))

\* The body of a _SET or _GET macro applied to value.  Several bodies of the
\* header have one closing parenthesis more than opening ones; they are read
\* as the shift-and-mask expression they spell.
Expand(macro, value) ==
  CASE macro.op = "shl_and"     -> And(Shl(U32(value), Pos(macro.pos)), Mask(macro.mask))
    [] macro.op = "and_shr"     -> Shr(And(U32(value), Mask(macro.mask)), Pos(macro.pos))
    [] macro.op = "dcb_and_shr" ->
         XCAN_DCB8_TO_DECIMAL(Shr(And(U32(value), Mask(macro.mask)), Pos(macro.pos)))

SET(n, value) == Expand(Field(n).SET, value)

\* _GET had it shifted the value without masking it first.
GET_Unmasked(n, value) == Shr(U32(value), Pos(n))

GET(n, value) == Expand(Field(n).GET, value)

HasSET(n) == Field(n).SET.op # "none"
HasGET(n) == Field(n).GET.op # "none"

\* ---------------------------------------------------------------------------
\* Bit-field declarations
\* ---------------------------------------------------------------------------
Struct(name) == CHOOSE s \in Range(BitFieldStructs) : s.name = name

\* The overlays of the header, as (typedef, overlay index) pairs.
Overlays ==
  UNION {{<<s.name, v>> : v \in 1 .. Len(s.views)} : s \in Range(BitFieldStructs)}

FieldsOf(name, v) == Struct(name).views[v].fields

\* Bit-fields are allocated from bit 0 upwards in declaration order inside
\* 32-bit units; a bit-field that does not fit in what is left of the current
\* unit starts the next one.
FieldStart(off, width) ==
  IF (off % 32) + width > 32 THEN 32 * ((off \div 32) + 1) ELSE off

\* Declared width of the bit-field the accessor n is named after.
DeclWidth(n) ==
  LET fs == FieldsOf(Field(n).reg, 1)
      k  == CHOOSE i \in 1 .. Len(fs) : fs[i][1] = Field(n).bitfield
  IN fs[k][2]

HasDecl(n) == Field(n).bitfield # ""

\* ---------------------------------------------------------------------------
\* Data length code tables, lines 103-105
\* ---------------------------------------------------------------------------
XCAN20_DLC_TO_VALUE == <<0, 1, 2, 3, 4, 5, 6, 7, 8,  8,  8,  8,  8,  8,  8,  8>>
\* The CAN-FD table had its codes above 8 been clamped like the CAN2.0 ones.
XCANFD_DLC_TO_VALUE_Clamped == <<0, 1, 2, 3, 4, 5, 6, 7, 8,  8,  8,  8,  8,  8,  8,  8>>

XCANFD_DLC_TO_VALUE == <<0, 1, 2, 3, 4, 5, 6, 7, 8, 12, 16, 20, 24, 32, 48, 64>>

\* The index had the code been masked to five bits instead of four.
DLCIndex_5Bits(dlc) == ToInt(And(Bits(dlc), Hex(<<1, 15>>)))

\* The index expression of XCAN_DLCToByte: (size_t)(dlc) & 0xF.
DLCIndex(dlc) == ToInt(And(Bits(dlc), Hex(<<15>>)))

\* Reading element i (from 0) of a 16-entry uint8_t table.  A read outside the
\* table is undefined: any byte may come back.
TableRead(table, i) ==
  IF i \in 0 .. Len(table) - 1 THEN {table[i + 1]} ELSE 0 .. 255

\* XCAN_DLCToByte(dlc, isCANFD): the set of values the expansion can yield.
\* The macro spells its tables CANFD_DLC_TO_VALUE and CAN20_DLC_TO_VALUE; the
\* tables of the header are the two above.
XCAN_DLCToByte(dlc, isCANFD) ==
  IF isCANFD THEN TableRead(XCANFD_DLC_TO_VALUE, DLCIndex(dlc))
             ELSE TableRead(XCAN20_DLC_TO_VALUE, DLCIndex(dlc))

\* ---------------------------------------------------------------------------
\* Header word 0 format bits and predicates, lines 385-392 and 627-634
\* ---------------------------------------------------------------------------
XCAN_T0_XTD == Shl(Hex(<<1>>), 29)
XCAN_T0_XLF == Shl(Hex(<<1>>), 30)
XCAN_T0_FDF == Shl(Hex(<<1>>), 31)

XCAN_T0_CAN20_SET == Hex(<<0>>)
XCAN_T0_CANFD_SET == XCAN_T0_FDF
\* XCAN_T0_CANXL_SET had it named the XL format bit alone.
XCAN_T0_CANXL_SET_OnlyXLF == XCAN_T0_XLF

XCAN_T0_CANXL_SET == Or(XCAN_T0_XLF, XCAN_T0_FDF)

\* XCAN_T0_IS_CAN20 had it tested the XL format bit alone.
XCAN_T0_IS_CAN20_OnlyXLF(value) == And(value, XCAN_T0_XLF) = Hex(<<0>>)

XCAN_T0_IS_CAN20(value) == And(value, Or(XCAN_T0_XLF, XCAN_T0_FDF)) = Hex(<<0>>)

\* The CAN-FD predicate had it compared the format bits with XLF instead of FDF.
XCAN_T0_IS_CANFD_WrongBit(value) ==
  And(value, Or(XCAN_T0_XLF, XCAN_T0_FDF)) = XCAN_T0_XLF

XCAN_T0_IS_CANFD(value) == And(value, Or(XCAN_T0_XLF, XCAN_T0_FDF)) = XCAN_T0_FDF

\* The CAN-XL predicate had it left XTD out of the bits it tests.
XCAN_T0_IS_CANXL_IgnoreXTD(value) ==
  And(value, Or(XCAN_T0_XLF, XCAN_T0_FDF)) = Or(XCAN_T0_XLF, XCAN_T0_FDF)

XCAN_T0_IS_CANXL(value) ==
  And(value, Or(Or(XCAN_T0_XLF, XCAN_T0_FDF), XCAN_T0_XTD)) = Or(XCAN_T0_XLF, XCAN_T0_FDF)

\* ---------------------------------------------------------------------------
\* Message descriptors, lines 283-329 and 542-571
\* ---------------------------------------------------------------------------
\* An enumeration is its enumerators in order, each with the enumerator its
\* initialiser names ("" when it has none).
eXCAN_TxDescriptor ==
  << <<"XCAN_CAN_TXDESC_TIC1", "">>,
     <<"XCAN_CAN_TXDESC_TIC2", "">>,
     <<"XCAN_CAN_TXDESC_TS0", "">>,
     <<"XCAN_CAN_TXDESC_TS1", "">>,
     <<"XCAN_CAN_TXDESC_T0", "">>,
     <<"XCAN_CAN_TXDESC_T1", "">>,
     <<"XCAN_CAN_TXDESC_T2", "">>,
     <<"XCAN_CAN_TXDESC_TD0", "XCAN_CAN_TXDESC_T2">>,
     <<"XCAN_CAN_TXDESC_TD1", "">>,
     <<"XCAN_CAN_TXDESC_TX_AP", "XCAN_CAN_TXDESC_TD1">>,
     <<"XCAN_CAN_TXDESC_COUNT", "">> >>

eXCAN_RxDescriptor ==
  << <<"XCAN_CAN_RXDESC_RIC1", "">>,
     <<"XCAN_CAN_RXDESC_RX_AP", "">>,
     <<"XCAN_CAN_RXDESC_TS0", "">>,
     <<"XCAN_CAN_RXDESC_TS1", "">>,
     <<"XCAN_CAN_RXDESC_COUNT", "">> >>

\* Value of the i-th enumerator: that of the enumerator its initialiser names,
\* else one more than its predecessor, the first being 0.
RECURSIVE EnumValue(_, _)
EnumValue(enum, i) ==
  IF enum[i][2] # ""
    THEN EnumValue(enum, CHOOSE j \in 1 .. i - 1 : enum[j][1] = enum[i][2])
    ELSE IF i = 1 THEN 0 ELSE EnumValue(enum, i - 1) + 1

Enumerator(enum, name) ==
  EnumValue(enum, CHOOSE i \in 1 .. Len(enum) : enum[i][1] = name)

XCAN_CAN_TXDESC_COUNT == Enumerator(eXCAN_TxDescriptor, "XCAN_CAN_TXDESC_COUNT")
XCAN_CAN_RXDESC_COUNT == Enumerator(eXCAN_RxDescriptor, "XCAN_CAN_RXDESC_COUNT")

\* sizeof(uint32_t)
SizeofUint32 == 4

\* Bits taken by a bit-field struct: where allocation stands after its last field.
StructBits(fs) ==
  LET end[k \in 0 .. Len(fs)] ==
        IF k = 0 THEN 0 ELSE FieldStart(end[k - 1], fs[k][2]) + fs[k][2]
  IN end[Len(fs)]

\* sizeof of a member type: uint32_t, or one of the unions above, whose members
\* are a uint32_t, a uint8_t[sizeof(uint32_t)] and the overlays, each overlay
\* taking whole 32-bit units.
SizeOf(type) ==
  IF type = "uint32_t" THEN SizeofUint32
  ELSE Max({SizeofUint32} \cup
           {SizeofUint32 * ((StructBits(Struct(type).views[v].fields) + 31) \div 32) :
              v \in 1 .. Len(Struct(type).views)})

\* The struct member of each descriptor union: its members in order; a member
\* with several types is an anonymous union of them.
\* The TX descriptor had TD0 and T2 been two members instead of one union.
XCAN_CAN_TxMessage_NoUnion ==
  [ Word  |-> XCAN_CAN_TXDESC_COUNT,
    Bytes |-> XCAN_CAN_TXDESC_COUNT * SizeofUint32,
    members |->
      << [name |-> "TIC1", types |-> <<"XCAN_TxDMAinfoCtrl1">>],
         [name |-> "TIC2", types |-> <<"XCAN_TxDMAinfoCtrl2">>],
         [name |-> "TS0", types |-> <<"uint32_t">>],
         [name |-> "TS1", types |-> <<"uint32_t">>],
         [name |-> "T0", types |-> <<"XCAN_TxMessageHeader0">>],
         [name |-> "T1", types |-> <<"XCAN_TxMessageHeader1">>],
         [name |-> "TD0", types |-> <<"uint32_t">>],
         [name |-> "T2", types |-> <<"uint32_t">>],
         [name |-> "TD1,TX_AP", types |-> <<"uint32_t", "uint32_t">>] >> ]

XCAN_CAN_TxMessage ==
  [ Word  |-> XCAN_CAN_TXDESC_COUNT,
    Bytes |-> XCAN_CAN_TXDESC_COUNT * SizeofUint32,
    members |->
      << [name |-> "TIC1", types |-> <<"XCAN_TxDMAinfoCtrl1">>],
         [name |-> "TIC2", types |-> <<"XCAN_TxDMAinfoCtrl2">>],
         [name |-> "TS0", types |-> <<"uint32_t">>],
         [name |-> "TS1", types |-> <<"uint32_t">>],
         [name |-> "T0", types |-> <<"XCAN_TxMessageHeader0">>],
         [name |-> "T1", types |-> <<"XCAN_TxMessageHeader1">>],
         [name |-> "TD0,T2", types |-> <<"uint32_t", "uint32_t">>],
         [name |-> "TD1,TX_AP", types |-> <<"uint32_t", "uint32_t">>] >> ]

XCAN_CAN_RxMessage ==
  [ Word  |-> XCAN_CAN_RXDESC_COUNT,
    Bytes |-> XCAN_CAN_RXDESC_COUNT * SizeofUint32,
    members |->
      << [name |-> "RIC1", types |-> <<"XCAN_TxDMAinfoCtrl1">>],
         [name |-> "RX_AP", types |-> <<"uint32_t">>],
         [name |-> "TS0", types |-> <<"uint32_t">>],
         [name |-> "TS1", types |-> <<"uint32_t">>] >> ]

Descriptor(name) ==
  IF name = "XCAN_CAN_TxMessage" THEN XCAN_CAN_TxMessage ELSE XCAN_CAN_RxMessage

Descriptors == {"XCAN_CAN_TxMessage", "XCAN_CAN_RxMessage"}
\* ---------------------------------------------------------------------------
\* Register list, lines 704-929: the enumerators of eXCAN_Registers in
\* declaration order, each with the value it is given.
\* ---------------------------------------------------------------------------
\* The bank, had the count been taken as a number of bytes.
RegXCAN_COUNT_AsBytes == 704 \div SizeofUint32

RegXCAN_COUNT == 704

RegXCAN_SIZE == RegXCAN_COUNT * SizeofUint32

eXCAN_Registers ==
  <<
    <<"RegXCAN_MsgHandlerRegisters", Hex(<<0, 0, 0>>)>>,
    <<"RegXCAN_GeneralRegisters", Hex(<<0, 0, 0>>)>>,
    <<"RegXCAN_VERSION", Hex(<<0, 0, 0>>)>>,
    <<"RegXCAN_MH_CTRL", Hex(<<0, 0, 4>>)>>,
    <<"RegXCAN_MH_CFG", Hex(<<0, 0, 8>>)>>,
    <<"RegXCAN_MH_STS", Hex(<<0, 0, 12>>)>>,
    <<"RegXCAN_MH_SFTY_CFG", Hex(<<0, 1, 0>>)>>,
    <<"RegXCAN_MH_SFTY_CTRL", Hex(<<0, 1, 4>>)>>,
    <<"RegXCAN_RX_FILTER_MEM_ADD", Hex(<<0, 1, 8>>)>>,
    <<"RegXCAN_TX_DESC_MEM_ADD", Hex(<<0, 1, 12>>)>>,
    <<"RegXCAN_AXI_ADD_EXT", Hex(<<0, 2, 0>>)>>,
    <<"RegXCAN_AXI_PARAMS", Hex(<<0, 2, 4>>)>>,
    <<"RegXCAN_MH_LOCK", Hex(<<0, 2, 8>>)>>,
    <<"RegXCAN_TxFIFOQueuesRegisters", Hex(<<1, 0, 0>>)>>,
    <<"RegXCAN_TX_DESC_ADD_PT", Hex(<<1, 0, 0>>)>>,
    <<"RegXCAN_TX_STATISTICS", Hex(<<1, 0, 4>>)>>,
    <<"RegXCAN_TX_FQ_STS0", Hex(<<1, 0, 8>>)>>,
    <<"RegXCAN_TX_FQ_STS1", Hex(<<1, 0, 12>>)>>,
    <<"RegXCAN_TX_FQ_CTRL0", Hex(<<1, 1, 0>>)>>,
    <<"RegXCAN_TX_FQ_CTRL1", Hex(<<1, 1, 4>>)>>,
    <<"RegXCAN_TX_FQ_CTRL2", Hex(<<1, 1, 8>>)>>,
    <<"RegXCAN_TX_FQ_ADD_PT0", Hex(<<1, 2, 0>>)>>,
    <<"RegXCAN_TX_FQ_START_ADD0", Hex(<<1, 2, 4>>)>>,
    <<"RegXCAN_TX_FQ_SIZE0", Hex(<<1, 2, 8>>)>>,
    <<"RegXCAN_TX_FQ_ADD_PT1", Hex(<<1, 3, 0>>)>>,
    <<"RegXCAN_TX_FQ_START_ADD1", Hex(<<1, 3, 4>>)>>,
    <<"RegXCAN_TX_FQ_SIZE1", Hex(<<1, 3, 8>>)>>,
    <<"RegXCAN_TX_FQ_ADD_PT2", Hex(<<1, 4, 0>>)>>,
    <<"RegXCAN_TX_FQ_START_ADD2", Hex(<<1, 4, 4>>)>>,
    <<"RegXCAN_TX_FQ_SIZE2", Hex(<<1, 4, 8>>)>>,
    <<"RegXCAN_TX_FQ_ADD_PT3", Hex(<<1, 5, 0>>)>>,
    <<"RegXCAN_TX_FQ_START_ADD3", Hex(<<1, 5, 4>>)>>,
    <<"RegXCAN_TX_FQ_SIZE3", Hex(<<1, 5, 8>>)>>,
    <<"RegXCAN_TX_FQ_ADD_PT4", Hex(<<1, 6, 0>>)>>,
    <<"RegXCAN_TX_FQ_START_ADD4", Hex(<<1, 6, 4>>)>>,
    <<"RegXCAN_TX_FQ_SIZE4", Hex(<<1, 6, 8>>)>>,
    <<"RegXCAN_TX_FQ_ADD_PT5", Hex(<<1, 7, 0>>)>>,
    <<"RegXCAN_TX_FQ_START_ADD5", Hex(<<1, 7, 4>>)>>,
    <<"RegXCAN_TX_FQ_SIZE5", Hex(<<1, 7, 8>>)>>,
    <<"RegXCAN_TX_FQ_ADD_PT6", Hex(<<1, 8, 0>>)>>,
    <<"RegXCAN_TX_FQ_START_ADD6", Hex(<<1, 8, 4>>)>>,
    <<"RegXCAN_TX_FQ_SIZE6", Hex(<<1, 8, 8>>)>>,
    <<"RegXCAN_TX_FQ_ADD_PT7", Hex(<<1, 9, 0>>)>>,
    <<"RegXCAN_TX_FQ_START_ADD7", Hex(<<1, 9, 4>>)>>,
    <<"RegXCAN_TX_FQ_SIZE7", Hex(<<1, 9, 8>>)>>,
    <<"RegXCAN_TxPrioQueuesRegisters", Hex(<<3, 0, 0>>)>>,
    <<"RegXCAN_TX_PQ_STS0", Hex(<<3, 0, 0>>)>>,
    <<"RegXCAN_TX_PQ_STS1", Hex(<<3, 0, 4>>)>>,
    <<"RegXCAN_TX_PQ_CTRL0", Hex(<<3, 0, 12>>)>>,
    <<"RegXCAN_TX_PQ_CTRL1", Hex(<<3, 1, 0>>)>>,
    <<"RegXCAN_TX_PQ_CTRL2", Hex(<<3, 1, 4>>)>>,
    <<"RegXCAN_TX_PQ_START_ADD", Hex(<<3, 1, 8>>)>>,
    <<"RegXCAN_RxFIFOQueuesRegisters", Hex(<<4, 0, 0>>)>>,
    <<"RegXCAN_RX_DESC_ADD_PT", Hex(<<4, 0, 0>>)>>,
    <<"RegXCAN_RX_STATISTICS", Hex(<<4, 0, 4>>)>>,
    <<"RegXCAN_RX_FQ_STS0", Hex(<<4, 0, 8>>)>>,
    <<"RegXCAN_RX_FQ_STS1", Hex(<<4, 0, 12>>)>>,
    <<"RegXCAN_RX_FQ_STS2", Hex(<<4, 1, 0>>)>>,
    <<"RegXCAN_RX_FQ_CTRL0", Hex(<<4, 1, 4>>)>>,
    <<"RegXCAN_RX_FQ_CTRL1", Hex(<<4, 1, 8>>)>>,
    <<"RegXCAN_RX_FQ_CTRL2", Hex(<<4, 1, 12>>)>>,
    <<"RegXCAN_RX_FQ_ADD_PT0", Hex(<<4, 2, 0>>)>>,
    <<"RegXCAN_RX_FQ_START_ADD0", Hex(<<4, 2, 4>>)>>,
    <<"RegXCAN_RX_FQ_SIZE0", Hex(<<4, 2, 8>>)>>,
    <<"RegXCAN_RX_FQ_DC_START_ADD0", Hex(<<4, 2, 12>>)>>,
    <<"RegXCAN_RX_FQ_RD_ADD_PT0", Hex(<<4, 3, 0>>)>>,
    <<"RegXCAN_RX_FQ_ADD_PT1", Hex(<<4, 3, 8>>)>>,
    <<"RegXCAN_RX_FQ_START_ADD1", Hex(<<4, 3, 12>>)>>,
    <<"RegXCAN_RX_FQ_SIZE1", Hex(<<4, 4, 0>>)>>,
    <<"RegXCAN_RX_FQ_DC_START_ADD1", Hex(<<4, 4, 4>>)>>,
    <<"RegXCAN_RX_FQ_RD_ADD_PT1", Hex(<<4, 4, 8>>)>>,
    <<"RegXCAN_RX_FQ_ADD_PT2", Hex(<<4, 5, 0>>)>>,
    <<"RegXCAN_RX_FQ_START_ADD2", Hex(<<4, 5, 4>>)>>,
    <<"RegXCAN_RX_FQ_SIZE2", Hex(<<4, 5, 8>>)>>,
    <<"RegXCAN_RX_FQ_DC_START_ADD2", Hex(<<4, 5, 12>>)>>,
    <<"RegXCAN_RX_FQ_RD_ADD_PT2", Hex(<<4, 6, 0>>)>>,
    <<"RegXCAN_RX_FQ_ADD_PT3", Hex(<<4, 6, 8>>)>>,
    <<"RegXCAN_RX_FQ_START_ADD3", Hex(<<4, 6, 12>>)>>,
    <<"RegXCAN_RX_FQ_SIZE3", Hex(<<4, 7, 0>>)>>,
    <<"RegXCAN_RX_FQ_DC_START_ADD3", Hex(<<4, 7, 4>>)>>,
    <<"RegXCAN_RX_FQ_RD_ADD_PT3", Hex(<<4, 7, 8>>)>>,
    <<"RegXCAN_RX_FQ_ADD_PT4", Hex(<<4, 8, 0>>)>>,
    <<"RegXCAN_RX_FQ_START_ADD4", Hex(<<4, 8, 4>>)>>,
    <<"RegXCAN_RX_FQ_SIZE4", Hex(<<4, 8, 8>>)>>,
    <<"RegXCAN_RX_FQ_DC_START_ADD4", Hex(<<4, 8, 12>>)>>,
    <<"RegXCAN_RX_FQ_RD_ADD_PT4", Hex(<<4, 9, 0>>)>>,
    <<"RegXCAN_RX_FQ_ADD_PT5", Hex(<<4, 9, 8>>)>>,
    <<"RegXCAN_RX_FQ_START_ADD5", Hex(<<4, 9, 12>>)>>,
    <<"RegXCAN_RX_FQ_SIZE5", Hex(<<4, 10, 0>>)>>,
    <<"RegXCAN_RX_FQ_DC_START_ADD5", Hex(<<4, 10, 4>>)>>,
    <<"RegXCAN_RX_FQ_RD_ADD_PT5", Hex(<<4, 10, 8>>)>>,
    <<"RegXCAN_RX_FQ_ADD_PT6", Hex(<<4, 11, 0>>)>>,
    <<"RegXCAN_RX_FQ_START_ADD6", Hex(<<4, 11, 4>>)>>,
    <<"RegXCAN_RX_FQ_SIZE6", Hex(<<4, 11, 8>>)>>,
    <<"RegXCAN_RX_FQ_DC_START_ADD6", Hex(<<4, 11, 12>>)>>,
    <<"RegXCAN_RX_FQ_RD_ADD_PT6", Hex(<<4, 12, 0>>)>>,
    <<"RegXCAN_RX_FQ_ADD_PT7", Hex(<<4, 12, 8>>)>>,
    <<"RegXCAN_RX_FQ_START_ADD7", Hex(<<4, 12, 12>>)>>,
    <<"RegXCAN_RX_FQ_SIZE7", Hex(<<4, 13, 0>>)>>,
    <<"RegXCAN_RX_FQ_DC_START_ADD7", Hex(<<4, 13, 4>>)>>,
    <<"RegXCAN_RX_FQ_RD_ADD_PT7", Hex(<<4, 13, 8>>)>>,
    <<"RegXCAN_TxRxFiltersRegisters", Hex(<<6, 0, 0>>)>>,
    <<"RegXCAN_TX_FILTER_CTRL0", Hex(<<6, 0, 0>>)>>,
    <<"RegXCAN_TX_FILTER_CTRL1", Hex(<<6, 0, 4>>)>>,
    <<"RegXCAN_TX_FILTER_REFVAL0", Hex(<<6, 0, 8>>)>>,
    <<"RegXCAN_TX_FILTER_REFVAL1", Hex(<<6, 0, 12>>)>>,
    <<"RegXCAN_TX_FILTER_REFVAL2", Hex(<<6, 1, 0>>)>>,
    <<"RegXCAN_TX_FILTER_REFVAL3", Hex(<<6, 1, 4>>)>>,
    <<"RegXCAN_RxFiltCtrlRegisters", Hex(<<6, 8, 0>>)>>,
    <<"RegXCAN_RX_FILTER_CTRL", Hex(<<6, 8, 0>>)>>,
    <<"RegXCAN_InterruptRegisters", Hex(<<7, 0, 0>>)>>,
    <<"RegXCAN_TX_FQ_INT_STS", Hex(<<7, 0, 0>>)>>,
    <<"RegXCAN_RX_FQ_INT_STS", Hex(<<7, 0, 4>>)>>,
    <<"RegXCAN_TX_PQ_INT_STS0", Hex(<<7, 0, 8>>)>>,
    <<"RegXCAN_TX_PQ_INT_STS1", Hex(<<7, 0, 12>>)>>,
    <<"RegXCAN_STATS_INT_STS", Hex(<<7, 1, 0>>)>>,
    <<"RegXCAN_ERR_INT_STS", Hex(<<7, 1, 4>>)>>,
    <<"RegXCAN_SFTY_INT_STS", Hex(<<7, 1, 8>>)>>,
    <<"RegXCAN_AXI_ERR_INFO", Hex(<<7, 1, 12>>)>>,
    <<"RegXCAN_DESC_ERR_INFO0", Hex(<<7, 2, 0>>)>>,
    <<"RegXCAN_DESC_ERR_INFO1", Hex(<<7, 2, 4>>)>>,
    <<"RegXCAN_TX_FILTER_ERR_INFO", Hex(<<7, 2, 8>>)>>,
    <<"RegXCAN_TX_FQ_INT_STS", Hex(<<8, 0, 0>>)>>,
    <<"RegXCAN_DEBUG_TEST_CTRL", Hex(<<8, 0, 0>>)>>,
    <<"RegXCAN_INT_TEST0", Hex(<<8, 0, 4>>)>>,
    <<"RegXCAN_INT_TEST1", Hex(<<8, 0, 8>>)>>,
    <<"RegXCAN_TX_SCAN_FC", Hex(<<8, 1, 0>>)>>,
    <<"RegXCAN_TX_SCAN_BC", Hex(<<8, 1, 4>>)>>,
    <<"RegXCAN_TX_FQ_DESC_VALID", Hex(<<8, 1, 8>>)>>,
    <<"RegXCAN_TX_PQ_DESC_VALID", Hex(<<8, 1, 12>>)>>,
    <<"RegXCAN_CRC_CTRL", Hex(<<8, 8, 0>>)>>,
    <<"RegXCAN_CRC_REG", Hex(<<8, 8, 4>>)>>,
    <<"RegXCAN_ProtocolCtrlRegisters", Hex(<<9, 0, 0>>)>>,
    <<"RegXCAN_ENDN", Hex(<<9, 0, 0>>)>>,
    <<"RegXCAN_PREL", Hex(<<9, 0, 4>>)>>,
    <<"RegXCAN_STAT", Hex(<<9, 0, 8>>)>>,
    <<"RegXCAN_EVNT", Hex(<<9, 2, 0>>)>>,
    <<"RegXCAN_LOCK", Hex(<<9, 4, 0>>)>>,
    <<"RegXCAN_CTRL", Hex(<<9, 4, 4>>)>>,
    <<"RegXCAN_FIMC", Hex(<<9, 4, 8>>)>>,
    <<"RegXCAN_TEST", Hex(<<9, 4, 12>>)>>,
    <<"RegXCAN_MODE", Hex(<<9, 6, 0>>)>>,
    <<"RegXCAN_NBTP", Hex(<<9, 6, 4>>)>>,
    <<"RegXCAN_DBTP", Hex(<<9, 6, 8>>)>>,
    <<"RegXCAN_XBTP", Hex(<<9, 6, 12>>)>>,
    <<"RegXCAN_PCFG", Hex(<<9, 7, 0>>)>>,
    <<"RegXCAN_InterruptCtrlRegisters", Hex(<<10, 0, 0>>)>>,
    <<"RegXCAN_FUNC_RAW", Hex(<<10, 0, 0>>)>>,
    <<"RegXCAN_ERR_RAW", Hex(<<10, 0, 4>>)>>,
    <<"RegXCAN_SAFETY_RAW", Hex(<<10, 0, 8>>)>>,
    <<"RegXCAN_FUNC_CLR", Hex(<<10, 1, 0>>)>>,
    <<"RegXCAN_ERR_CLR", Hex(<<10, 1, 4>>)>>,
    <<"RegXCAN_SAFETY_CLR", Hex(<<10, 1, 8>>)>>,
    <<"RegXCAN_FUNC_ENA", Hex(<<10, 2, 0>>)>>,
    <<"RegXCAN_ERR_ENA", Hex(<<10, 2, 4>>)>>,
    <<"RegXCAN_SAFETY_ENA", Hex(<<10, 2, 8>>)>>,
    <<"RegXCAN_CAPTURING_MODE", Hex(<<10, 3, 0>>)>>,
    <<"RegXCAN_HDP", Hex(<<10, 4, 0>>)>>
  >>

\* The values of the enumerator declared one line further down.
RegisterValues_NextLine(name) ==
  {eXCAN_Registers[i + 1][2] :
     i \in {j \in 1 .. Len(eXCAN_Registers) - 1 : eXCAN_Registers[j][1] = name}}

\* The values the list gives to a name: one per declaration of the name.
RegisterValues(name) ==
  {eXCAN_Registers[i][2] :
     i \in {j \in 1 .. Len(eXCAN_Registers) : eXCAN_Registers[j][1] = name}}

\* ---------------------------------------------------------------------------
\* Access to a word through the overlays of its union
\* ---------------------------------------------------------------------------
\* Names of the named bit-fields of an overlay.
NamesOf(fs) == {fs[k][1] : k \in 1 .. Len(fs)} \ {""}

IndexOf(fs, name) == CHOOSE k \in 1 .. Len(fs) : fs[k][1] = name

\* Bit index of the least significant bit of the k-th bit-field of fs.
FieldLow(fs, k) == FieldStart(StructBits(SubSeq(fs, 1, k - 1)), fs[k][2])

\* The bits of the word the k-th bit-field of fs occupies.
FieldBits(fs, k) == FieldLow(fs, k) .. FieldLow(fs, k) + fs[k][2] - 1

\* Value read from word w through the k-th bit-field of fs.
ReadField(w, fs, k) == Shr(And(w, FieldBits(fs, k)), FieldLow(fs, k))

\* ---------------------------------------------------------------------------
\* Bit-fields of a descriptor member
\* ---------------------------------------------------------------------------
\* The named bit-fields of an overlay, each with its first and last bit.
LayoutOf(fs) ==
  {<<fs[k][1], FieldLow(fs, k), FieldLow(fs, k) + fs[k][2] - 1>> :
     k \in {i \in 1 .. Len(fs) : fs[i][1] # ""}}

\* The members of a descriptor whose type is one of the bit-field unions.
BitFieldMembers(d) ==
  {k \in 1 .. Len(Descriptor(d).members) :
     /\ Len(Descriptor(d).members[k].types) = 1
     /\ Descriptor(d).members[k].types[1] # "uint32_t"}

\* ---------------------------------------------------------------------------
\* TX control word 1: status values and flag constants, lines 172-214
\* ---------------------------------------------------------------------------
\* The status values, had the enumerators been numbered from 1.
eXCAN_TxStatus_FromOne ==
  [ XCAN_TX_STATUS_NONE                   |-> 1,
    XCAN_TX_STATUS_MESSAGE_SENT_SUCCESS   |-> 2,
    XCAN_TX_STATUS_MESSAGE_NOT_SENT       |-> 3,
    XCAN_TX_STATUS_MESSAGE_SKIPPED        |-> 4,
    XCAN_TX_STATUS_MESSAGE_REJECTED       |-> 5,
    XCAN_TX_STATUS_MESSAGE_ACK_WITH_ERROR |-> 6 ]

eXCAN_TxStatus ==
  [ XCAN_TX_STATUS_NONE                   |-> 0,
    XCAN_TX_STATUS_MESSAGE_SENT_SUCCESS   |-> 1,
    XCAN_TX_STATUS_MESSAGE_NOT_SENT       |-> 2,
    XCAN_TX_STATUS_MESSAGE_SKIPPED        |-> 3,
    XCAN_TX_STATUS_MESSAGE_REJECTED       |-> 4,
    XCAN_TX_STATUS_MESSAGE_ACK_WITH_ERROR |-> 15 ]

XCAN_TxDMA1_HD == Shl(Hex(<<1>>), 30)
XCAN_TxDMA1_VALID_SET_VALID_FOR_MH == Shl(Hex(<<1>>), 31)

\* ( ((value) & XCAN_TxDMA1_VALID_SET_VALID_FOR_MH) > 0 )
XCAN_TxDMA1_VALID_IS_ACKNOWLEDGE(value) ==
  And(value, XCAN_TxDMA1_VALID_SET_VALID_FOR_MH) # {}

\* The bits of a control word outside a field.
Outside(w, n) == w \ Mask(n)

\* ---------------------------------------------------------------------------
\* RX control word: status values and flag constants, lines 505-539
\* ---------------------------------------------------------------------------
eXCAN_RxStatus ==
  [ XCAN_RX_STATUS_NONE                    |-> 0,
    XCAN_RX_STATUS_MESSAGE_RECEIVE_SUCCESS |-> 1,
    XCAN_RX_STATUS_MESSAGE_NOT_FILTERED    |-> 2,
    XCAN_RX_STATUS_MESSAGE_ACK_WITH_ERROR  |-> 15 ]

XCAN_RxDMA1_HD == Shl(Hex(<<1>>), 30)
XCAN_RxDMA1_VALID_SET_VALID_FOR_MH == Shl(Hex(<<1>>), 31)

\* ( ((value) & XCAN_RxDMA1_VALID_SET_VALID_FOR_MH) > 0 )
XCAN_RxDMA1_VALID_DATA_IS_AVAILABLE(value) ==
  And(value, XCAN_RxDMA1_VALID_SET_VALID_FOR_MH) # {}

\* ---------------------------------------------------------------------------
\* Single-bit flag constants
\* ---------------------------------------------------------------------------
Flag(n) == CHOOSE f \in FlagConstants : f.name = n

\* The bits at which the typedef declares the bit-field the flag is named after.
FlagField(f) ==
  LET fs == FieldsOf(f.reg, 1)
  IN FieldBits(fs, IndexOf(fs, f.bitfield))

\* Receive pin levels, lines 2404-2408
eXCAN_TestRxPin == [XCAN_RX_DOMINANT |-> 0, XCAN_RX_RECESSIVE |-> 1]

\* Value of the IRC configuration register, line 3442: 0x00000007
XCAN_IC_CM_InitialValue == Hex(<<0, 0, 0, 0, 0, 0, 0, 7>>)


\* ---------------------------------------------------------------------------
\* Named constants of a register or descriptor word
\* ---------------------------------------------------------------------------
\* The constant of that name, (1u << n) or (0u << n).
Constant(n) == CHOOSE f \in FlagConstants \cup ZeroConstants : f.name = n

\* The constants that follow typedef r and are named after its bit-field b.
ConstantsOf(r, b) ==
  {f.name : f \in {g \in FlagConstants \cup ZeroConstants : g.reg = r /\ g.bitfield = b}}

\* a | b | ... over a set of words.
OrAll(ws) == UNION ws

\* In-range values of a field of the given width: 0, all ones, and every
\* second bit from bit 0.
FieldSamples(width) ==
  {{}, 0 .. width - 1, {b \in 0 .. width - 1 : b % 2 = 0}}

\* ---------------------------------------------------------------------------
\* Masks of all the flags of a register
\* ---------------------------------------------------------------------------
\* The masks, had XCAN_CAN_STATUS been written 0x000000EC.
FlagMasks_StatusWithoutRP ==
  { [ name |-> "XCAN_SAFTY_INT_STATUS_FLAGS", reg |-> "XCAN_SFTY_INT_STS_Register",
      value |-> OrAll({Constant(n).value : n \in {
           "XCAN_SFTY_INT_STS_DMA_AXI_RW_R_TO_ERR", "XCAN_SFTY_INT_STS_DMA_AXI_RD_TO_ERR",
           "XCAN_SFTY_INT_STS_DP_PRT_TX_TO_ERR", "XCAN_SFTY_INT_STS_DP_PRT_RX_TO_ERR",
           "XCAN_SFTY_INT_STS_MEM_AXI_RW_R_TO_ERR", "XCAN_SFTY_INT_STS_MEM_AXI_RD_TO_ERR",
           "XCAN_SFTY_INT_STS_DP_TX_PARITY_ERR", "XCAN_SFTY_INT_STS_DP_RX_PARITY_ERR",
           "XCAN_SFTY_INT_STS_AP_TX_PARITY_ERR", "XCAN_SFTY_INT_STS_AP_RX_PARITY_ERR",
           "XCAN_SFTY_INT_STS_TX_DESC_REQ_ERR", "XCAN_SFTY_INT_STS_TX_DESC_CRC_ERR",
           "XCAN_SFTY_INT_STS_RX_DESC_REQ_ERR", "XCAN_SFTY_INT_STS_RX_DESC_CRC_ERR",
           "XCAN_SFTY_INT_STS_MEM_SFTY_UE", "XCAN_SFTY_INT_STS_MEM_SFTY_CE",
           "XCAN_SFTY_INT_STS_ACK_TX_PARITY_ERR", "XCAN_SFTY_INT_STS_ACK_RX_PARITY_ERR" }}) ],
    [ name |-> "XCAN_EVENT_STATUS_FLAGS_Mask", reg |-> "XCAN_PC_EVNT_Register",
      value |-> Hex(<<0, 0, 0, 0, 3, 15, 15, 15>>) ],
    [ name |-> "XCAN_TRIGGER_INT_LINE_Mask", reg |-> "XCAN_PC_TEST_Register",
      value |-> Hex(<<0, 15, 15, 15, 0, 0, 0, 0>>) ],
    [ name |-> "XCAN_CAN_STATUS", reg |-> "XCAN_PC_STAT_Register",
      value |-> Hex(<<0, 0, 0, 0, 0, 0, 14, 12>>) ] }

\* XCAN_SAFTY_INT_STATUS_FLAGS (lines 1529-1534) is a macro that ORs flag
\* constants; the three others are enumerators given as literals (lines 2186,
\* 2261 and 2460).  reg is the register typedef the mask follows.
FlagMasks ==
  { [ name |-> "XCAN_SAFTY_INT_STATUS_FLAGS", reg |-> "XCAN_SFTY_INT_STS_Register",
      value |-> OrAll({Constant(n).value : n \in {
           "XCAN_SFTY_INT_STS_DMA_AXI_RW_R_TO_ERR", "XCAN_SFTY_INT_STS_DMA_AXI_RD_TO_ERR",
           "XCAN_SFTY_INT_STS_DP_PRT_TX_TO_ERR", "XCAN_SFTY_INT_STS_DP_PRT_RX_TO_ERR",
           "XCAN_SFTY_INT_STS_MEM_AXI_RW_R_TO_ERR", "XCAN_SFTY_INT_STS_MEM_AXI_RD_TO_ERR",
           "XCAN_SFTY_INT_STS_DP_TX_PARITY_ERR", "XCAN_SFTY_INT_STS_DP_RX_PARITY_ERR",
           "XCAN_SFTY_INT_STS_AP_TX_PARITY_ERR", "XCAN_SFTY_INT_STS_AP_RX_PARITY_ERR",
           "XCAN_SFTY_INT_STS_TX_DESC_REQ_ERR", "XCAN_SFTY_INT_STS_TX_DESC_CRC_ERR",
           "XCAN_SFTY_INT_STS_RX_DESC_REQ_ERR", "XCAN_SFTY_INT_STS_RX_DESC_CRC_ERR",
           "XCAN_SFTY_INT_STS_MEM_SFTY_UE", "XCAN_SFTY_INT_STS_MEM_SFTY_CE",
           "XCAN_SFTY_INT_STS_ACK_TX_PARITY_ERR", "XCAN_SFTY_INT_STS_ACK_RX_PARITY_ERR" }}) ],
    [ name |-> "XCAN_EVENT_STATUS_FLAGS_Mask", reg |-> "XCAN_PC_EVNT_Register",
      value |-> Hex(<<0, 0, 0, 0, 3, 15, 15, 15>>) ],
    [ name |-> "XCAN_TRIGGER_INT_LINE_Mask", reg |-> "XCAN_PC_TEST_Register",
      value |-> Hex(<<0, 15, 15, 15, 0, 0, 0, 0>>) ],
    [ name |-> "XCAN_CAN_STATUS", reg |-> "XCAN_PC_STAT_Register",
      value |-> Hex(<<0, 0, 8, 0, 0, 0, 14, 12>>) ] }

\* ---------------------------------------------------------------------------
\* State
\* ---------------------------------------------------------------------------
VARIABLES
  pc,       \* what is being evaluated and how far it got
  reg,      \* typedef being laid out (bit-field union or descriptor)
  view,     \* overlay of reg being laid out
  idx,      \* members of reg laid out so far; table index of a DLC lookup
  start,    \* bit index of the least significant bit of the last field laid out
  offset,   \* where the next member goes: bits (bit-fields) or bytes (descriptors)
  total,    \* sum of the widths of the bit-fields laid out so far
  field,    \* accessor macro group being expanded
  value,    \* argument of the macro
  word,     \* result of the _SET macro
  result,   \* result of the _GET macro
  dlc,      \* argument of XCAN_DLCToByte
  isCANFD,  \* argument of XCAN_DLCToByte
  bytes,    \* result of XCAN_DLCToByte
  T0,       \* header word 0 being classified
  frame,    \* results of XCAN_T0_IS_CAN20, XCAN_T0_IS_CANFD, XCAN_T0_IS_CANXL
  regName,  \* enumerator of eXCAN_Registers being read
  regOffset,\* the value the enumeration gives it
  hdr,      \* union accessed through two of its overlays
  viewA,    \* first overlay
  viewB,    \* second overlay
  shared,   \* bit-field name both overlays declare
  raw,      \* the 32-bit word stored in the union
  readA,    \* shared as read through viewA
  readB,    \* shared as read through viewB
  mDesc,    \* descriptor whose member is accessed
  mName,    \* the member
  mView,    \* overlay of the member's type
  mLayout,  \* the bit-fields the member gives access to
  TIC1,     \* control word 1 of a TX descriptor slot
  txCount,  \* descriptors software has defined in the slot
  txWriter, \* who wrote TIC1 last: "SW", "MH" or "none"
  txPolled, \* software has tested TIC1 since its last write
  txAck,    \* result of XCAN_TxDMA1_VALID_IS_ACKNOWLEDGE(TIC1)
  RIC1,     \* control word of an RX descriptor slot
  rxCount,  \* descriptors software has defined in the slot
  rxWriter, \* who wrote RIC1 last: "SW", "MH" or "none"
  rxData,   \* RX message data of the descriptor: "none", "written" or "read"
  rxIrq,    \* RX_FQ_IRQ raised for the slot
  flag,     \* flag constant being used
  flagWord, \* register word with that constant, and only it, set
  parts,    \* field values a TX control word 1 is assembled from
  consts,   \* flag constants OR-ed into it
  ctrl,     \* the assembled control word
  dcb,      \* argument of XCAN_DCB8_TO_DECIMAL
  decimal   \* its result

layoutVars == <<reg, view, idx, start, offset, total>>
macroVars  == <<field, value, word, result>>
dlcVars    == <<dlc, isCANFD, bytes>>
headerVars == <<T0, frame>>
bankVars   == <<regName, regOffset>>
overlayVars == <<hdr, viewA, viewB, shared, raw, readA, readB>>
memberVars == <<mDesc, mName, mView, mLayout>>
txVars     == <<TIC1, txCount, txWriter, txPolled, txAck>>
rxVars     == <<RIC1, rxCount, rxWriter, rxData, rxIrq>>
flagVars   == <<flag, flagWord>>
buildVars  == <<parts, consts, ctrl, dcb, decimal>>

vars == <<pc, layoutVars, macroVars, dlcVars, headerVars, bankVars, overlayVars, memberVars, txVars, rxVars, flagVars, buildVars>>

\* What the evaluations of the first part leave alone.
restVars == <<bankVars, overlayVars, memberVars, txVars, rxVars, flagVars, buildVars>>

\* Runs of 1 bits, and the all-zero value.
ValueSamples ==
  {{}} \cup {lo .. hi : lo \in 0 .. MaxValueBit, hi \in 0 .. MaxValueBit}

\* Header words: any format bits over identifier bits.
HeaderWords ==
  {Or(fmt, And(id, Mask("XCAN_T0_ID"))) :
     fmt \in SUBSET Or(Or(XCAN_T0_XTD, XCAN_T0_XLF), XCAN_T0_FDF), id \in ValueSamples}

Init ==
  /\ pc = "idle"
  /\ reg = "" /\ view = 0 /\ idx = 0 /\ start = 0 /\ offset = 0 /\ total = 0
  /\ field = "" /\ value = {} /\ word = {} /\ result = {}
  /\ dlc = 0 /\ isCANFD = FALSE /\ bytes = 0
  /\ T0 = {} /\ frame = [CAN20 |-> FALSE, CANFD |-> FALSE, CANXL |-> FALSE]
  /\ regName = "" /\ regOffset = {}
  /\ TIC1 = {} /\ txCount = 0 /\ txWriter = "none" /\ txPolled = FALSE /\ txAck = FALSE
  /\ RIC1 = {} /\ rxCount = 0 /\ rxWriter = "none" /\ rxData = "none" /\ rxIrq = FALSE
  /\ flag = "" /\ flagWord = {}
  /\ parts = [STS |-> {}, RC |-> {}, PQSN |-> {}, CRC |-> {}] /\ consts = {} /\ ctrl = {}
  /\ dcb = 0 /\ decimal = 0
  /\ mDesc = "" /\ mName = "" /\ mView = 0 /\ mLayout = {}
  /\ hdr = "" /\ viewA = 0 /\ viewB = 0 /\ shared = "" /\ raw = {} /\ readA = {} /\ readB = {}

\* --- laying out a bit-field structure --------------------------------------
BitFieldBegin ==
  /\ pc = "idle"
  /\ pc' = "layout"
  /\ \E o \in Overlays : reg' = o[1] /\ view' = o[2]
  /\ idx' = 0 /\ start' = 0 /\ offset' = 0 /\ total' = 0
  /\ UNCHANGED <<macroVars, dlcVars, headerVars, restVars>>

BitFieldAlloc ==
  /\ pc = "layout"
  /\ idx < Len(FieldsOf(reg, view))
  /\ LET width == FieldsOf(reg, view)[idx + 1][2]
     IN /\ start' = FieldStart(offset, width)
        /\ offset' = FieldStart(offset, width) + width
        /\ total' = total + width
  /\ idx' = idx + 1
  /\ UNCHANGED <<pc, reg, view, macroVars, dlcVars, headerVars, restVars>>

\* --- expanding the accessor macros -----------------------------------------
MacroCall ==
  /\ pc = "idle"
  /\ pc' = "called"
  /\ \E f \in FieldMacros : field' = f.name
  /\ value' \in ValueSamples
  /\ UNCHANGED <<word, result, layoutVars, dlcVars, headerVars, restVars>>

\* word = f_SET(value)
ApplySET ==
  /\ pc = "called"
  /\ HasSET(field)
  /\ word' = SET(field, value)
  /\ pc' = "set"
  /\ UNCHANGED <<field, value, result, layoutVars, dlcVars, headerVars, restVars>>

\* result = f_GET(value), value being a raw register word
ApplyGET ==
  /\ pc = "called"
  /\ HasGET(field)
  /\ result' = GET(field, value)
  /\ pc' = "got"
  /\ UNCHANGED <<field, value, word, layoutVars, dlcVars, headerVars, restVars>>

\* result = f_GET(f_SET(value))
ReadBack ==
  /\ pc = "set"
  /\ HasGET(field)
  /\ result' = GET(field, word)
  /\ pc' = "readback"
  /\ UNCHANGED <<field, value, word, layoutVars, dlcVars, headerVars, restVars>>

\* --- DLC lookup ------------------------------------------------------------
DLCToByte ==
  /\ pc = "idle"
  /\ pc' = "dlc"
  /\ \E d \in 0 .. MaxDlcInput, fd \in BOOLEAN :
       /\ dlc' = d /\ isCANFD' = fd
       /\ idx' = DLCIndex(d)
       /\ bytes' \in XCAN_DLCToByte(d, fd)
  /\ UNCHANGED <<reg, view, start, offset, total, macroVars, headerVars, restVars>>

\* --- classifying header word 0 ---------------------------------------------
Classify ==
  /\ pc = "idle"
  /\ pc' = "classified"
  /\ \E w \in HeaderWords :
       /\ T0' = w
       /\ frame' = [CAN20 |-> XCAN_T0_IS_CAN20(w),
                    CANFD |-> XCAN_T0_IS_CANFD(w),
                    CANXL |-> XCAN_T0_IS_CANXL(w)]
  /\ UNCHANGED <<layoutVars, macroVars, dlcVars, restVars>>

\* --- laying out a message descriptor ---------------------------------------
DescBegin ==
  /\ pc = "idle"
  /\ pc' = "desc"
  /\ reg' \in Descriptors /\ view' = 0
  /\ idx' = 0 /\ start' = 0 /\ offset' = 0 /\ total' = 0
  /\ UNCHANGED <<macroVars, dlcVars, headerVars, restVars>>

\* The unions are packed: a member follows its predecessor without padding.
DescMember ==
  /\ pc = "desc"
  /\ idx < Len(Descriptor(reg).members)
  /\ LET types == Descriptor(reg).members[idx + 1].types
         size  == Max({SizeOf(types[t]) : t \in 1 .. Len(types)})
     IN /\ start' = offset
        /\ offset' = offset + size
  /\ idx' = idx + 1
  /\ UNCHANGED <<pc, reg, view, total, macroVars, dlcVars, headerVars, restVars>>

\* --- reading the register list ---------------------------------------------
\* A name stands for the value of a declaration of it.
RegisterRead ==
  /\ pc = "idle"
  /\ pc' = "register"
  /\ \E n \in {eXCAN_Registers[i][1] : i \in 1 .. Len(eXCAN_Registers)} :
       /\ regName' = n
       /\ regOffset' \in RegisterValues(n)
  /\ UNCHANGED <<layoutVars, macroVars, dlcVars, headerVars, overlayVars, memberVars, txVars, rxVars, flagVars, buildVars>>

\* --- a word read through two overlays ---------------------------------------
\* The overlays are members of one union: they are views of the same word.
OverlayAccess ==
  /\ pc = "idle"
  /\ pc' = "overlay"
  /\ \E s \in {u \in Range(BitFieldStructs) : Len(u.views) > 1} :
       \E a \in 1 .. Len(s.views), b \in 1 .. Len(s.views) :
         /\ a < b
         /\ \E n \in NamesOf(s.views[a].fields) \cap NamesOf(s.views[b].fields) :
              \E w \in ValueSamples :
                /\ hdr' = s.name /\ viewA' = a /\ viewB' = b /\ shared' = n
                /\ raw' = And(w, Uint32Bits)
                /\ readA' = ReadField(raw', FieldsOf(s.name, a),
                                      IndexOf(FieldsOf(s.name, a), n))
                /\ readB' = ReadField(raw', FieldsOf(s.name, b),
                                      IndexOf(FieldsOf(s.name, b), n))
  /\ UNCHANGED <<layoutVars, macroVars, dlcVars, headerVars, bankVars, memberVars, txVars, rxVars, flagVars, buildVars>>

\* --- the bit-fields of a descriptor member ----------------------------------
\* A member gives access to the bit-fields of the type it is declared with.
MemberAccess ==
  /\ pc = "idle"
  /\ pc' = "member"
  /\ \E d \in Descriptors :
       \E k \in BitFieldMembers(d) :
         LET type == Descriptor(d).members[k].types[1]
         IN \E v \in 1 .. Len(Struct(type).views) :
              /\ mDesc' = d
              /\ mName' = Descriptor(d).members[k].name
              /\ mView' = v
              /\ mLayout' = LayoutOf(FieldsOf(type, v))
  /\ UNCHANGED <<layoutVars, macroVars, dlcVars, headerVars, bankVars, overlayVars, txVars, rxVars, flagVars, buildVars>>

\* --- life of a TX descriptor slot -------------------------------------------
\* Lines 135-167.  Software defines a descriptor in a slot it owns (VALID = 0):
\* STS is set to 0, RC to the count of the descriptors defined before it, HD
\* and VALID to 1.
SwTxDefine ==
  /\ pc \in {"idle", "tx"}
  /\ pc' = "tx"
  /\ 31 \notin TIC1
  /\ txCount < MaxDescriptors
  /\ TIC1' = Or(Or(SET("XCAN_TxDMA1_STS", Bits(eXCAN_TxStatus.XCAN_TX_STATUS_NONE)),
                  SET("XCAN_TxDMA1_RC", Bits(txCount))),
               Or(XCAN_TxDMA1_HD, XCAN_TxDMA1_VALID_SET_VALID_FOR_MH))
  /\ txCount' = txCount + 1
  /\ txWriter' = "SW"
  /\ txPolled' = FALSE
  /\ UNCHANGED <<txAck, layoutVars, macroVars, dlcVars, headerVars, bankVars, overlayVars,
                 memberVars, rxVars, flagVars, buildVars>>

\* The message handler has fully used a valid header descriptor: it writes the
\* status back and clears VALID.
MhTxAcknowledge ==
  /\ pc = "tx"
  /\ 31 \in TIC1 /\ 30 \in TIC1
  /\ \E s \in {eXCAN_TxStatus[n] : n \in DOMAIN eXCAN_TxStatus} \ {eXCAN_TxStatus.XCAN_TX_STATUS_NONE} :
       TIC1' = Or(Outside(TIC1, "XCAN_TxDMA1_STS") \ {31}, SET("XCAN_TxDMA1_STS", Bits(s)))
  /\ txWriter' = "MH"
  /\ txPolled' = FALSE
  /\ UNCHANGED <<pc, txCount, txAck, layoutVars, macroVars, dlcVars, headerVars, bankVars,
                 overlayVars, memberVars, rxVars, flagVars, buildVars>>

\* Software tests the control word with XCAN_TxDMA1_VALID_IS_ACKNOWLEDGE.
SwTxPoll ==
  /\ pc = "tx"
  /\ ~txPolled
  /\ txAck' = XCAN_TxDMA1_VALID_IS_ACKNOWLEDGE(TIC1)
  /\ txPolled' = TRUE
  /\ UNCHANGED <<pc, TIC1, txCount, txWriter, layoutVars, macroVars, dlcVars, headerVars,
                 bankVars, overlayVars, memberVars, rxVars, flagVars, buildVars>>

\* --- life of an RX descriptor slot -------------------------------------------
\* Lines 465-500.  Software defines a descriptor in a slot it owns, that is one
\* it never gave away or whose RX message data it has read: STS is set to 0 and
\* RC to the count of the descriptors defined before it.  For VALID the field
\* documentation has software set the bit to 0, and the header offers the
\* constant XCAN_RxDMA1_VALID_SET_VALID_FOR_MH to define the descriptor as
\* valid for the MH.
SwRxDefine ==
  /\ pc \in {"idle", "rx"}
  /\ pc' = "rx"
  /\ rxWriter = "none" \/ (31 \in RIC1 /\ rxData = "read")
  /\ rxCount < MaxDescriptors
  /\ \E valid \in {{}, XCAN_RxDMA1_VALID_SET_VALID_FOR_MH} :
       RIC1' = Or(Or(SET("XCAN_RxDMA1_STS", Bits(eXCAN_RxStatus.XCAN_RX_STATUS_NONE)),
                     SET("XCAN_RxDMA1_RC", Bits(rxCount))),
                  valid)
  /\ rxCount' = rxCount + 1
  /\ rxWriter' = "SW"
  /\ rxData' = "none"
  /\ UNCHANGED <<rxIrq, layoutVars, macroVars, dlcVars, headerVars, bankVars, overlayVars,
                 memberVars, txVars, flagVars, buildVars>>

\* The message handler executes a descriptor fetched with VALID = 0: it writes
\* the RX message data to the data container.
MhRxWriteData ==
  /\ pc = "rx"
  /\ rxWriter = "SW" /\ 31 \notin RIC1 /\ rxData = "none"
  /\ rxData' = "written"
  /\ UNCHANGED <<pc, RIC1, rxCount, rxWriter, rxIrq, layoutVars, macroVars, dlcVars,
                 headerVars, bankVars, overlayVars, memberVars, txVars, flagVars, buildVars>>

\* Then it writes the status back and sets HD and VALID.
MhRxComplete ==
  /\ pc = "rx"
  /\ 31 \notin RIC1 /\ rxData = "written"
  /\ \E s \in {eXCAN_RxStatus[n] : n \in DOMAIN eXCAN_RxStatus} \ {eXCAN_RxStatus.XCAN_RX_STATUS_NONE} :
       RIC1' = Or(Or(Outside(RIC1, "XCAN_RxDMA1_STS"), SET("XCAN_RxDMA1_STS", Bits(s))),
                  Or(XCAN_RxDMA1_HD, Shl(Hex(<<1>>), 31)))
  /\ rxWriter' = "MH"
  /\ UNCHANGED <<pc, rxCount, rxData, rxIrq, layoutVars, macroVars, dlcVars, headerVars,
                 bankVars, overlayVars, memberVars, txVars, flagVars, buildVars>>

\* A descriptor fetched with VALID = 1 is not executed: RX_FQ_IRQ is raised.
MhRxFetchInvalid ==
  /\ pc = "rx"
  /\ rxWriter = "SW" /\ 31 \in RIC1 /\ ~rxIrq
  /\ rxIrq' = TRUE
  /\ UNCHANGED <<pc, RIC1, rxCount, rxWriter, rxData, layoutVars, macroVars, dlcVars,
                 headerVars, bankVars, overlayVars, memberVars, txVars, flagVars, buildVars>>

\* Software finds data available and reads the RX message data.
SwRxRead ==
  /\ pc = "rx"
  /\ XCAN_RxDMA1_VALID_DATA_IS_AVAILABLE(RIC1) /\ rxData = "written"
  /\ rxData' = "read"
  /\ UNCHANGED <<pc, RIC1, rxCount, rxWriter, rxIrq, layoutVars, macroVars, dlcVars,
                 headerVars, bankVars, overlayVars, memberVars, txVars, flagVars, buildVars>>

\* --- using a flag constant ---------------------------------------------------
\* A register word is built from one flag constant.
FlagUse ==
  /\ pc = "idle"
  /\ pc' = "flag"
  /\ \E f \in FlagConstants :
       /\ flag' = f.name
       /\ flagWord' = f.value
  /\ UNCHANGED <<layoutVars, macroVars, dlcVars, headerVars, bankVars, overlayVars,
                 memberVars, txVars, rxVars, buildVars>>


\* A register word is built from one (0u << n) constant.
ZeroUse ==
  /\ pc = "idle"
  /\ pc' = "zero"
  /\ \E f \in ZeroConstants :
       /\ flag' = f.name
       /\ flagWord' = f.value
  /\ UNCHANGED <<layoutVars, macroVars, dlcVars, headerVars, bankVars, overlayVars,
                 memberVars, txVars, rxVars, buildVars>>

\* A register word is masked with one of the masks of all flags.
MaskUse ==
  /\ pc = "idle"
  /\ pc' = "mask"
  /\ \E m \in FlagMasks :
       /\ flag' = m.name
       /\ flagWord' = m.value
  /\ UNCHANGED <<layoutVars, macroVars, dlcVars, headerVars, bankVars, overlayVars,
                 memberVars, txVars, rxVars, buildVars>>

\* --- assembling TX control word 1 -------------------------------------------
\* Lines 184-213.  The word is the OR of the four _SET macros, each applied to
\* a value of its field, and of flag constants: for each of END, PQ, IRQ, WRAP,
\* HD and VALID none or one of the constants named after the bit-field.
TxAssemble ==
  /\ pc = "idle"
  /\ pc' = "assembled"
  /\ \E s \in FieldSamples(DeclWidth("XCAN_TxDMA1_STS")),
        r \in FieldSamples(DeclWidth("XCAN_TxDMA1_RC")),
        p \in FieldSamples(DeclWidth("XCAN_TxDMA1_PQSN")),
        c \in FieldSamples(DeclWidth("XCAN_TxDMA1_CRC")) :
       \E chosen \in SUBSET UNION {ConstantsOf("XCAN_TxDMAinfoCtrl1", b) :
                                     b \in {"END", "PQ", "IRQ", "WRAP", "HD", "VALID"}} :
         /\ \A b \in {"END", "PQ", "IRQ", "WRAP", "HD", "VALID"} :
              Cardinality(chosen \cap ConstantsOf("XCAN_TxDMAinfoCtrl1", b)) <= 1
         /\ parts' = [STS |-> s, RC |-> r, PQSN |-> p, CRC |-> c]
         /\ consts' = chosen
         /\ ctrl' = Or(Or(Or(SET("XCAN_TxDMA1_STS", s), SET("XCAN_TxDMA1_RC", r)),
                          Or(SET("XCAN_TxDMA1_PQSN", p), SET("XCAN_TxDMA1_CRC", c))),
                       OrAll({Constant(n).value : n \in chosen}))
  /\ UNCHANGED <<dcb, decimal, layoutVars, macroVars, dlcVars, headerVars, bankVars,
                 overlayVars, memberVars, txVars, rxVars, flagVars>>

\* --- converting a BCD byte ---------------------------------------------------
DcbConvert ==
  /\ pc = "idle"
  /\ pc' = "decimal"
  /\ \E b \in 0 .. MaxDcbInput :
       /\ dcb' = b
       /\ decimal' = ToInt(XCAN_DCB8_TO_DECIMAL(Bits(b)))
  /\ UNCHANGED <<parts, consts, ctrl, layoutVars, macroVars, dlcVars, headerVars, bankVars,
                 overlayVars, memberVars, txVars, rxVars, flagVars>>
Next ==
  \/ DcbConvert
  \/ BitFieldBegin
  \/ BitFieldAlloc
  \/ MacroCall
  \/ ApplySET
  \/ ApplyGET
  \/ ReadBack
  \/ DLCToByte
  \/ Classify
  \/ DescBegin
  \/ DescMember
  \/ RegisterRead
  \/ OverlayAccess
  \/ MemberAccess
  \/ SwTxDefine
  \/ MhTxAcknowledge
  \/ SwTxPoll
  \/ SwRxDefine
  \/ MhRxWriteData
  \/ MhRxComplete
  \/ MhRxFetchInvalid
  \/ SwRxRead
  \/ FlagUse
  \/ ZeroUse
  \/ MaskUse
  \/ TxAssemble

Spec == Init /\ [][Next]_vars

TypeOK ==
  /\ pc \in {"idle", "layout", "called", "set", "got", "readback", "dlc", "classified", "desc",
            "register", "overlay", "member", "tx", "rx", "flag", "zero", "mask", "assembled", "decimal"}
  /\ word \subseteq Uint32Bits
  /\ result \subseteq Uint32Bits
  /\ T0 \subseteq Uint32Bits
  /\ bytes \in 0 .. 255
  /\ regOffset \subseteq Uint32Bits
  /\ raw \subseteq Uint32Bits
  /\ TIC1 \subseteq Uint32Bits
  /\ txCount \in 0 .. MaxDescriptors
  /\ RIC1 \subseteq Uint32Bits
  /\ rxCount \in 0 .. MaxDescriptors
  /\ flagWord \subseteq Uint32Bits
  /\ ctrl \subseteq Uint32Bits
  /\ dcb \in 0 .. MaxDcbInput
  /\ decimal \in 0 .. 255

\* ===========================================================================
\* Properties
\* ===========================================================================

\* Width of the field an accessor is for: that of the bit-field it is named
\* after, else the width its mask literal spans.
FieldWidth(n) ==
  IF HasDecl(n) THEN DeclWidth(n) ELSE Max(Field(n).Mask.lit) + 1

\* C1: for a field with a _SET and a _GET macro and every value v that fits the
\* declared width of its bit-field, _GET(_SET(v)) = v.
C1_RoundTrip ==
  (pc = "readback" /\ HasDecl(field) /\ value \subseteq 0 .. (DeclWidth(field) - 1))
    => result = value

\* C2: in every bit-field structure (each overlay on its own) the widths of the
\* named and reserved fields sum to exactly 32.
C2_WidthsSumTo32 ==
  (pc = "layout" /\ idx = Len(FieldsOf(reg, view))) => total = 32

\* C3: the _Mask of a field covers exactly the bits its bit-field occupies: it
\* is (2^width - 1) shifted left by the field's _Pos, and _Pos is the index of
\* the least significant bit of the bit-field.
C3_MaskCoversField ==
  (pc = "layout" /\ idx > 0) =>
    \A f \in FieldMacros :
      (f.reg = reg /\ f.bitfield # "" /\ f.bitfield = FieldsOf(reg, view)[idx][1]) =>
        /\ Pos(f.name) = start
        /\ Mask(f.name) = Shl(0 .. (FieldsOf(reg, view)[idx][2] - 1), Pos(f.name))

\* C4: every _SET(value) macro computes ((value << _Pos) & _Mask) and every
\* _GET(value) macro ((value & _Mask) >> _Pos), with the _Pos and _Mask of the
\* field the macro is named after.
C4_ShiftAndMask ==
  /\ pc = "set" => word = And(Shl(U32(value), Pos(field)), Mask(field))
  /\ pc = "got" => result = Shr(And(U32(value), Mask(field)), Pos(field))
  /\ pc = "readback" => result = Shr(And(word, Mask(field)), Pos(field))

\* C5: for every _SET macro and every value v, _SET(v) has no bit outside the
\* field's _Mask and equals _SET(v mod 2^width).
C5_SetTruncates ==
  pc = "set" =>
    /\ word \subseteq Mask(field)
    /\ word = SET(field, value \cap (0 .. (FieldWidth(field) - 1)))

\* C6: for every DLC code c in 0..15 the CAN2.0 lookup yields c when c <= 8 and
\* 8 when c >= 9; the CAN-FD lookup yields c when c <= 8 and 12, 16, 20, 24,
\* 32, 48, 64 for c = 9..15.
C6_DLCTables ==
  (pc = "dlc" /\ dlc \in 0 .. 15) =>
    bytes = IF dlc <= 8 THEN dlc
            ELSE IF ~isCANFD THEN 8
            ELSE CASE dlc = 9  -> 12
                   [] dlc = 10 -> 16
                   [] dlc = 11 -> 20
                   [] dlc = 12 -> 24
                   [] dlc = 13 -> 32
                   [] dlc = 14 -> 48
                   [] dlc = 15 -> 64

C6_Witness ==
  /\ pc = "dlc" /\ dlc = 13 /\ isCANFD /\ bytes = 32

C8_CANFDWord ==
  (pc = "classified" /\ 31 \in T0 /\ 30 \notin T0 /\ 29 \notin T0) =>
    /\ frame.CANFD
    /\ ~frame.CAN20
    /\ ~frame.CANXL

C8_Witness ==
  /\ pc = "classified" /\ T0 = {31} \cup (0 .. 28)
  /\ frame.CANFD /\ ~frame.CAN20 /\ ~frame.CANXL

\* C9 as stated: for every header word 0 with FDF = 1, XLF = 1 and XTD = 1,
\* whatever its bits 0..28, XCAN_T0_IS_CANXL is true.
C9_AsStated ==
  (pc = "classified" /\ 31 \in T0 /\ 30 \in T0 /\ 29 \in T0) => frame.CANXL

\* C9 amended: for every header word 0 with FDF = 1 and XLF = 1, whatever its
\* bits 0..28, XCAN_T0_IS_CANXL is true when XTD = 0 and false when XTD = 1.
C9_Amended ==
  (pc = "classified" /\ 31 \in T0 /\ 30 \in T0) => (frame.CANXL <=> 29 \notin T0)

C9_Witness ==
  /\ pc = "classified" /\ T0 = {31, 30} \cup (0 .. 28)
  /\ frame.CANXL

\* C10: the TX descriptor is 8 32-bit words (32 bytes) and the RX descriptor 4
\* words (16 bytes): the COUNT enumerators are 8 and 4 and the members of each
\* descriptor structure add up to exactly that size.
C10_DescriptorSizes ==
  /\ XCAN_CAN_TXDESC_COUNT = 8
  /\ XCAN_CAN_RXDESC_COUNT = 4
  /\ (pc = "desc" /\ idx = Len(Descriptor(reg).members)) =>
       /\ offset = Descriptor(reg).Bytes
       /\ offset = Descriptor(reg).Word * SizeofUint32
       /\ offset = IF reg = "XCAN_CAN_TxMessage" THEN 32 ELSE 16

C10_Witness ==
  /\ pc = "desc" /\ reg = "XCAN_CAN_TxMessage"
  /\ idx = Len(XCAN_CAN_TxMessage.members) /\ offset = 32

\* ---------------------------------------------------------------------------
\* Register list
\* ---------------------------------------------------------------------------

\* C11: RegXCAN_RX_FQ_START_ADD0 is 0x424, RegXCAN_TX_DESC_MEM_ADD is 0x01C and
\* RegXCAN_PREL is 0x904.
C11_NamedOffsets ==
  pc = "register" =>
    /\ regName = "RegXCAN_RX_FQ_START_ADD0" => regOffset = Hex(<<4, 2, 4>>)
    /\ regName = "RegXCAN_TX_DESC_MEM_ADD" => regOffset = Hex(<<0, 1, 12>>)
    /\ regName = "RegXCAN_PREL" => regOffset = Hex(<<9, 0, 4>>)

C11_Witness ==
  pc = "register" /\ regName = "RegXCAN_PREL" /\ ToInt(regOffset) = 2308

\* C12: every name of the register list denotes exactly one byte offset: a
\* name read from the list never has a declaration with another value.
C12_OneOffsetPerName ==
  pc = "register" =>
    \A i \in 1 .. Len(eXCAN_Registers) :
      eXCAN_Registers[i][1] = regName => eXCAN_Registers[i][2] = regOffset

\* C13: the bank is 704 words, 2816 bytes, and every offset of the register
\* list is a multiple of 4 whose 32-bit word ends inside the bank.
C13_OffsetsInsideBank ==
  /\ RegXCAN_COUNT = 704
  /\ RegXCAN_SIZE = 2816
  /\ pc = "register" =>
       /\ ToInt(regOffset) % 4 = 0
       /\ ToInt(regOffset) < RegXCAN_SIZE
       /\ ToInt(regOffset) + SizeofUint32 <= RegXCAN_SIZE

\* The last register of the list, RegXCAN_HDP at 0xA40.
C13_Witness ==
  pc = "register" /\ regName = "RegXCAN_HDP" /\ ToInt(regOffset) = 2624

\* ---------------------------------------------------------------------------
\* Overlays of the header words
\* ---------------------------------------------------------------------------

\* C14: a bit-field name that two overlays of a header word declare occupies
\* the same bits in both, so a word stored in the union reads the same value
\* for that name through either overlay.
C14_SharedFieldsCoincide ==
  pc = "overlay" =>
    /\ FieldBits(FieldsOf(hdr, viewA), IndexOf(FieldsOf(hdr, viewA), shared))
         = FieldBits(FieldsOf(hdr, viewB), IndexOf(FieldsOf(hdr, viewB), shared))
    /\ readA = readB

\* FIR of header word 1 (bit 30) read as 1 through the CANFD and CANXL overlays.
C14_Witness ==
  /\ pc = "overlay" /\ hdr = "XCAN_TxMessageHeader1"
  /\ viewA = 2 /\ viewB = 3 /\ shared = "FIR"
  /\ 30 \in raw /\ readA = {0} /\ readB = {0}

\* ---------------------------------------------------------------------------
\* Descriptor control words
\* ---------------------------------------------------------------------------

\* C15: member RIC1 of XCAN_CAN_RxMessage has the RX DMA-info layout: STS in
\* bits 0-3, RC in 4-8, IN in 9-11, FQN in 12-15, CRC in 16-24, IRQ at 27,
\* NEXT at 28, HD at 30 and VALID at 31.
C15_RxControlWordLayout ==
  (pc = "member" /\ mDesc = "XCAN_CAN_RxMessage" /\ mName = "RIC1") =>
    { <<"STS", 0, 3>>, <<"RC", 4, 8>>, <<"IN", 9, 11>>, <<"FQN", 12, 15>>,
      <<"CRC", 16, 24>>, <<"IRQ", 27, 27>>, <<"NEXT", 28, 28>>, <<"HD", 30, 30>>,
      <<"VALID", 31, 31>> } \subseteq mLayout

\* C16: XCAN_TxDMA1_VALID_IS_ACKNOWLEDGE(word) is true exactly when the message
\* handler has acknowledged the descriptor, that is, has cleared VALID (bit 31).
C16_AcknowledgeTest ==
  (pc = "tx" /\ txPolled) => (txAck <=> (txWriter = "MH" /\ 31 \notin TIC1))

C18_RxValidOwnership ==
  [][ /\ (31 \notin RIC1 /\ 31 \in RIC1') => (rxWriter' = "MH" /\ rxData = "written")
      /\ (31 \in RIC1 /\ 31 \notin RIC1') => (rxWriter' = "SW" /\ rxData = "read")
    ]_vars

\* C19: the rolling counter is 5 bits wide, in bits 4-8: XCAN_TxDMA1_RC_GET of
\* XCAN_TxDMA1_RC_SET(n) is n mod 32 for every n, likewise for XCAN_RxDMA1_RC,
\* so the counter that follows 31 is 0 and no other field of the control word
\* is disturbed.
C19_RollingCounter ==
  /\ Mask("XCAN_TxDMA1_RC") = 4 .. 8
  /\ Mask("XCAN_RxDMA1_RC") = 4 .. 8
  /\ (pc = "tx" /\ txWriter = "SW") =>
       /\ ToInt(GET("XCAN_TxDMA1_RC", TIC1)) = (txCount - 1) % 32
       /\ Outside(TIC1, "XCAN_TxDMA1_RC") = {30, 31}
  /\ (pc = "rx" /\ rxWriter = "SW") =>
       /\ ToInt(GET("XCAN_RxDMA1_RC", RIC1)) = (rxCount - 1) % 32
       /\ Outside(RIC1, "XCAN_RxDMA1_RC") \subseteq {31}

\* The 33rd descriptor of a TX slot: the counter after 0b11111 is 0b00000.
C19_Witness ==
  /\ pc = "tx" /\ txWriter = "SW" /\ txCount = 33
  /\ GET("XCAN_TxDMA1_RC", TIC1) = {}

\* ---------------------------------------------------------------------------
\* Flag constants
\* ---------------------------------------------------------------------------

\* C20: every single-bit flag constant is the bit at which the bit-field it is
\* named after is declared: XCAN_DEBUG_TEST_CTRL_HDP_EN is bit 1,
\* XCAN_PC_TEST_RX_RECESSIVE is bit 3, so that XCAN_PC_TEST_RX_GET of it is
\* XCAN_RX_RECESSIVE, and the three XCAN_IC_CM_*_EDGE_SENSITIVE constants are
\* bits 0, 1 and 2, whose OR is the value 0x7 of the register.
C20_FlagsSelectTheirField ==
  pc = "flag" =>
       /\ flagWord = FlagField(Flag(flag))
       /\ flag = "XCAN_DEBUG_TEST_CTRL_HDP_EN" => flagWord = {1}
       /\ flag = "XCAN_PC_TEST_RX_RECESSIVE" =>
            /\ flagWord = {3}
            /\ GET("XCAN_PC_TEST_RX", flagWord) = Bits(eXCAN_TestRxPin.XCAN_RX_RECESSIVE)
       /\ flag = "XCAN_IC_CM_FUNC_EDGE_SENSITIVE" => flagWord = {0}
       /\ flag = "XCAN_IC_CM_ERR_EDGE_SENSITIVE" => flagWord = {1}
       /\ flag = "XCAN_IC_CM_SAFETY_EDGE_SENSITIVE" => flagWord = {2}
       /\ Flag(flag).reg = "XCAN_IC_CM_Register" =>
            Or(Or(Flag("XCAN_IC_CM_FUNC_EDGE_SENSITIVE").value,
                  Flag("XCAN_IC_CM_ERR_EDGE_SENSITIVE").value),
               Flag("XCAN_IC_CM_SAFETY_EDGE_SENSITIVE").value) = XCAN_IC_CM_InitialValue

\* ---------------------------------------------------------------------------
\* Constants of the control words
\* ---------------------------------------------------------------------------

\* C21: an RX control word that includes XCAN_RxDMA1_VALID_SET_VALID_FOR_MH
\* describes a descriptor that is valid for the message handler: its VALID bit
\* (bit 31) is 0, and the message handler fills it without raising RX_FQ_IRQ.
C21_RxValidConstant ==
  /\ (pc = "flag" /\ flag = "XCAN_RxDMA1_VALID_SET_VALID_FOR_MH") => 31 \notin flagWord
  /\ ( /\ pc = "rx" /\ rxWriter = "SW"
       /\ And(RIC1, XCAN_RxDMA1_VALID_SET_VALID_FOR_MH) = XCAN_RxDMA1_VALID_SET_VALID_FOR_MH )
       => (31 \notin RIC1 /\ ~rxIrq)

\* C22: the END constants of TX control word 1 follow the documentation of the
\* END field: XCAN_TxDMA1_END_TX_FIFO_QUEUE has bit 25 set,
\* XCAN_TxDMA1_END_TX_PRIORITY_QUEUE has bit 25 clear, and a control word
\* assembled with the latter has END = 0.
C22_EndConstants ==
  /\ (pc \in {"flag", "zero"} /\ flag = "XCAN_TxDMA1_END_TX_FIFO_QUEUE") => 25 \in flagWord
  /\ (pc \in {"flag", "zero"} /\ flag = "XCAN_TxDMA1_END_TX_PRIORITY_QUEUE") => 25 \notin flagWord
  /\ (pc = "assembled" /\ "XCAN_TxDMA1_END_TX_PRIORITY_QUEUE" \in consts) => 25 \notin ctrl

\* C23: in the TX-SCAN best-candidates register, for the first candidate (FH_PQ,
\* bit 0) and for the second (SH_PQ, bit 16), the TX priority queue constant
\* has the PQ bit set, the TX FIFO queue constant has it clear, and the two
\* constants of a pair are different values.
C23_ScanCandidateConstants ==
  pc \in {"flag", "zero"} =>
    /\ flag = "XCAN_TX_SCAN_BC_FH_PQ_TX_PRIORITY_QUEUE" =>
         /\ 0 \in flagWord
         /\ flagWord # Constant("XCAN_TX_SCAN_BC_FH_PQ_TX_FIFO_QUEUE").value
    /\ flag = "XCAN_TX_SCAN_BC_FH_PQ_TX_FIFO_QUEUE" =>
         /\ 0 \notin flagWord
         /\ flagWord # Constant("XCAN_TX_SCAN_BC_FH_PQ_TX_PRIORITY_QUEUE").value
    /\ flag = "XCAN_TX_SCAN_BC_SH_PQ_TX_PRIORITY_QUEUE" =>
         /\ 16 \in flagWord
         /\ flagWord # Constant("XCAN_TX_SCAN_BC_SH_PQ_TX_FIFO_QUEUE").value
    /\ flag = "XCAN_TX_SCAN_BC_SH_PQ_TX_FIFO_QUEUE" =>
         /\ 16 \notin flagWord
         /\ flagWord # Constant("XCAN_TX_SCAN_BC_SH_PQ_TX_PRIORITY_QUEUE").value

\* ---------------------------------------------------------------------------
\* Frame formats of header word 0
\* ---------------------------------------------------------------------------

\* C24 as stated: a header word 0 built as XCAN_T0_CAN20_SET, XCAN_T0_CANFD_SET
\* or XCAN_T0_CANXL_SET OR-ed with any identifier bits (bits 0..28) and either
\* value of XTD (bit 29) is accepted by the matching predicate and rejected by
\* the other two.
C24_AsStated ==
  pc = "classified" =>
    /\ T0 \ (0 .. 29) = XCAN_T0_CAN20_SET => (frame.CAN20 /\ ~frame.CANFD /\ ~frame.CANXL)
    /\ T0 \ (0 .. 29) = XCAN_T0_CANFD_SET => (~frame.CAN20 /\ frame.CANFD /\ ~frame.CANXL)
    /\ T0 \ (0 .. 29) = XCAN_T0_CANXL_SET => (~frame.CAN20 /\ ~frame.CANFD /\ frame.CANXL)

\* C24 as amended: the same for XCAN_T0_CAN20_SET and XCAN_T0_CANFD_SET; a word
\* built from XCAN_T0_CANXL_SET is accepted by XCAN_T0_IS_CANXL alone when XTD
\* is 0 and rejected by all three predicates when XTD is 1.
C24_Amended ==
  pc = "classified" =>
    /\ T0 \ (0 .. 29) = XCAN_T0_CAN20_SET => (frame.CAN20 /\ ~frame.CANFD /\ ~frame.CANXL)
    /\ T0 \ (0 .. 29) = XCAN_T0_CANFD_SET => (~frame.CAN20 /\ frame.CANFD /\ ~frame.CANXL)
    /\ T0 \ (0 .. 29) = XCAN_T0_CANXL_SET =>
         /\ ~frame.CAN20 /\ ~frame.CANFD
         /\ frame.CANXL <=> And(T0, XCAN_T0_XTD) = {}

\* An extended-identifier CAN-FD word, all identifier bits set.
C24_Witness ==
  /\ pc = "classified" /\ T0 = Or(XCAN_T0_CANFD_SET, 0 .. 29)
  /\ frame.CANFD /\ ~frame.CAN20 /\ ~frame.CANXL

\* C25: for every 32-bit header word, at most one of XCAN_T0_IS_CAN20,
\* XCAN_T0_IS_CANFD and XCAN_T0_IS_CANXL is true.
C25_AtMostOneFormat ==
  pc = "classified" =>
    Cardinality({k \in {"CAN20", "CANFD", "CANXL"} : frame[k]}) <= 1

\* A word with XLF alone is none of the three formats; one with FDF alone is
\* CAN-FD only.
C25_Witness ==
  /\ pc = "classified" /\ T0 = XCAN_T0_XLF
  /\ ~frame.CAN20 /\ ~frame.CANFD /\ ~frame.CANXL

\* ---------------------------------------------------------------------------
\* Assembling TX control word 1
\* ---------------------------------------------------------------------------

\* C26: from a TX control word 1 assembled by OR-ing XCAN_TxDMA1_STS_SET(s),
\* XCAN_TxDMA1_RC_SET(r), XCAN_TxDMA1_PQSN_SET(p), XCAN_TxDMA1_CRC_SET(c) and
\* any of the flag constants for END, PQ, IRQ, WRAP, HD and VALID, the matching
\* _GET macros return s, r, p and c unchanged, for all in-range values.
C26_FieldsKeepTheirValue ==
  pc = "assembled" =>
    /\ GET("XCAN_TxDMA1_STS", ctrl) = parts.STS
    /\ GET("XCAN_TxDMA1_RC", ctrl) = parts.RC
    /\ GET("XCAN_TxDMA1_PQSN", ctrl) = parts.PQSN
    /\ GET("XCAN_TxDMA1_CRC", ctrl) = parts.CRC

\* All four fields zero, every flag bit set: no field reads a flag back.
C26_Witness ==
  /\ pc = "assembled"
  /\ parts = [STS |-> {}, RC |-> {}, PQSN |-> {}, CRC |-> {}]
  /\ ctrl = {25, 26, 27, 29, 30, 31}
  /\ GET("XCAN_TxDMA1_CRC", ctrl) = {}

\* ---------------------------------------------------------------------------
\* Per-queue registers
\* ---------------------------------------------------------------------------

\* C27: the per-queue registers are laid out with a constant stride: for every
\* queue n in 0..7, RX_FQ_ADD_PTn = 0x420 + 0x18*n, RX_FQ_START_ADDn = 0x424 +
\* 0x18*n, RX_FQ_SIZEn = 0x428 + 0x18*n, RX_FQ_DC_START_ADDn = 0x42C + 0x18*n,
\* RX_FQ_RD_ADD_PTn = 0x430 + 0x18*n, TX_FQ_ADD_PTn = 0x120 + 0x10*n,
\* TX_FQ_START_ADDn = 0x124 + 0x10*n and TX_FQ_SIZEn = 0x128 + 0x10*n.
C27_QueueStride ==
  pc = "register" =>
    \A n \in 0 .. 7 :
      \A q \in { <<"RegXCAN_RX_FQ_ADD_PT",       Hex(<<4, 2, 0>>),  Hex(<<1, 8>>)>>,
                 <<"RegXCAN_RX_FQ_START_ADD",    Hex(<<4, 2, 4>>),  Hex(<<1, 8>>)>>,
                 <<"RegXCAN_RX_FQ_SIZE",         Hex(<<4, 2, 8>>),  Hex(<<1, 8>>)>>,
                 <<"RegXCAN_RX_FQ_DC_START_ADD", Hex(<<4, 2, 12>>), Hex(<<1, 8>>)>>,
                 <<"RegXCAN_RX_FQ_RD_ADD_PT",    Hex(<<4, 3, 0>>),  Hex(<<1, 8>>)>>,
                 <<"RegXCAN_TX_FQ_ADD_PT",       Hex(<<1, 2, 0>>),  Hex(<<1, 0>>)>>,
                 <<"RegXCAN_TX_FQ_START_ADD",    Hex(<<1, 2, 4>>),  Hex(<<1, 0>>)>>,
                 <<"RegXCAN_TX_FQ_SIZE",         Hex(<<1, 2, 8>>),  Hex(<<1, 0>>)>> } :
        regName = q[1] \o ToString(n) => ToInt(regOffset) = ToInt(q[2]) + ToInt(q[3]) * n

\* The last RX queue: RX_FQ_RD_ADD_PT7 = 0x430 + 0x18 * 7 = 0x4D8.
C27_Witness ==
  /\ pc = "register" /\ regName = "RegXCAN_RX_FQ_RD_ADD_PT7"
  /\ regOffset = Hex(<<4, 13, 8>>)

\* ---------------------------------------------------------------------------
\* Masks of all flags
\* ---------------------------------------------------------------------------

\* C28: each mask of all flags is the OR of exactly the flag constants of its
\* register: XCAN_SAFTY_INT_STATUS_FLAGS is 0x3FFFF, the 18 safety flags;
\* XCAN_EVENT_STATUS_FLAGS_Mask 0x00003FFF the 14 EVNT flags;
\* XCAN_TRIGGER_INT_LINE_Mask 0x0FFF0000 the 12 trigger-line flags; and
\* XCAN_CAN_STATUS 0x008000EC the INT, STP, FIMA, EP, BO and RP status flags.
C28_MasksCoverTheirFlags ==
  pc = "mask" =>
    LET m     == CHOOSE x \in FlagMasks : x.name = flag
        ofReg == {f \in FlagConstants : f.reg = m.reg}
        lines == {"ABORTED", "USOS", "TX_DU", "RX_DO", "IFF_RQ", "TX_EVT", "RX_EVT",
                  "BUS_ERR", "E_ACTIVE", "E_PASSIVE", "BUS_ON", "BUS_OFF"}
        flags == CASE flag = "XCAN_SAFTY_INT_STATUS_FLAGS"  -> ofReg
                   [] flag = "XCAN_EVENT_STATUS_FLAGS_Mask" -> ofReg
                   [] flag = "XCAN_TRIGGER_INT_LINE_Mask"   ->
                        {f \in ofReg : f.bitfield \in lines}
                   [] flag = "XCAN_CAN_STATUS"              ->
                        {f \in ofReg : f.bitfield \in {"INT", "STP", "FIMA", "EP", "BO", "RP"}}
    IN /\ flagWord = OrAll({f.value : f \in flags})
       /\ Cardinality(flags) = Cardinality(flagWord)
       /\ flag = "XCAN_SAFTY_INT_STATUS_FLAGS" =>
            (flagWord = Hex(<<3, 15, 15, 15, 15>>) /\ Cardinality(flags) = 18)
       /\ flag = "XCAN_EVENT_STATUS_FLAGS_Mask" =>
            (flagWord = Hex(<<0, 0, 0, 0, 3, 15, 15, 15>>) /\ Cardinality(flags) = 14)
       /\ flag = "XCAN_TRIGGER_INT_LINE_Mask" =>
            (flagWord = Hex(<<0, 15, 15, 15, 0, 0, 0, 0>>) /\ Cardinality(flags) = 12)
       /\ flag = "XCAN_CAN_STATUS" =>
            (flagWord = Hex(<<0, 0, 8, 0, 0, 0, 14, 12>>) /\ Cardinality(flags) = 6)

\* The CAN status mask: bits 2, 3, 5, 6, 7 and 23.
C28_Witness ==
  /\ pc = "mask" /\ flag = "XCAN_CAN_STATUS"
  /\ flagWord = {2, 3, 5, 6, 7, 23}

\* ---------------------------------------------------------------------------
\* Identifier of header word 0
\* ---------------------------------------------------------------------------

\* C29: the 29-bit identifier of header word 0 is the 11-bit standard ID (bits
\* 18-28) above the 18-bit extended ID (bits 0-17): for every 29-bit id,
\* XCAN_T0_ID_SET(id) = XCAN_T0_SID_SET(id >> 18) | XCAN_T0_EID_SET(id & 0x3FFFF);
\* the SID and EID masks are disjoint, their union is the ID mask, and none of
\* them overlaps XTD, XLF or FDF.
C29_IdentifierSplit ==
  (pc = "set" /\ field = "XCAN_T0_ID") =>
    /\ value \subseteq 0 .. 28 =>
         word = Or(SET("XCAN_T0_SID", Shr(value, 18)),
                   SET("XCAN_T0_EID", And(value, Hex(<<3, 15, 15, 15, 15>>))))
    /\ And(Mask("XCAN_T0_SID"), Mask("XCAN_T0_EID")) = {}
    /\ Or(Mask("XCAN_T0_SID"), Mask("XCAN_T0_EID")) = Mask("XCAN_T0_ID")
    /\ Mask("XCAN_T0_SID") = 18 .. 28
    /\ Mask("XCAN_T0_EID") = 0 .. 17
    /\ And(Mask("XCAN_T0_ID"), Or(Or(XCAN_T0_XTD, XCAN_T0_XLF), XCAN_T0_FDF)) = {}

\* An identifier with bits on both sides of the split: 0x000FF000.
C29_Witness ==
  /\ pc = "set" /\ field = "XCAN_T0_ID" /\ value = 12 .. 19
  /\ word = 12 .. 19
  /\ SET("XCAN_T0_SID", Shr(value, 18)) = {18, 19}

\* ---------------------------------------------------------------------------
\* BCD conversion
\* ---------------------------------------------------------------------------

\* C30: XCAN_DCB8_TO_DECIMAL(b) is 10 * (b >> 4) + (b & 0xF) for every byte
\* value b, the decimal value of a two-digit BCD byte (0x31 gives 31), and is
\* the value unchanged for every 4-bit input, as the YEAR, SUBSTEP, STEP and REL
\* getters of the PREL register use it.
C30_BcdToDecimal ==
  /\ (pc = "decimal" /\ dcb \in 0 .. 255) =>
       /\ decimal = 10 * (dcb \div 16) + (dcb % 16)
       /\ dcb = 49 => decimal = 31
       /\ dcb \in 0 .. 15 => decimal = dcb
  /\ ( /\ pc = "got"
       /\ field \in {"XCAN_PC_PREL_YEAR", "XCAN_PC_PREL_SUBSTEP", "XCAN_PC_PREL_STEP",
                     "XCAN_PC_PREL_REL"} ) =>
       result = Shr(And(U32(value), Mask(field)), Pos(field))

\* The byte 0x31 converts to 31.
C30_Witness ==
  pc = "decimal" /\ dcb = 49 /\ decimal = 31
====
